---------------------------- MODULE Spec2Model ----------------------------
(***************************************************************************)
(* kellyframework: a Go HTTP JSON API framework.  A callable is registered *)
(* as a route (NewServiceHandler / RegisterFunctionsToHTTPRouter); every   *)
(* request binds one argument value from query string, JSON body and path  *)
(* captures (parseArgument), calls the callable under recover              *)
(* (doServiceMethodCall), writes the response and records telemetry        *)
(* (ServeHTTPWithParams).                                                  *)
(*                                                                         *)
(* The specifications share the variables:                                 *)
(*   SpecReg    registration of routes into a router (utils.go)            *)
(*   Spec       the life of requests on one constructed handler, behind    *)
(*              the AccessLogDecorator                                     *)
(*   SpecNamed  the handler that dispatches on the method name             *)
(*   SpecConc   requests served at the same time by one handler            *)
(*   SpecLog    the rotating access-log writer                             *)
(***************************************************************************)
EXTENDS Integers, Sequences, FiniteSets, TLC

VARIABLES
    \* ---- registration (utils.go)
    regPc,      \* "idle" | "loop" | "returned": position in NewHTTPRouter
    router,     \* the routes installed in the httprouter.Router, in order
    regRoute,   \* the Route handled by the last loop iteration (or NoRoute)
    regOut,     \* what NewServiceHandler returned for it: [h, err]
    regResult,  \* what NewHTTPRouter returned: [router, err]
    \* ---- one handler serving requests (ServeHTTPWithParams)
    h,          \* the *ServiceHandler
    pc,         \* "idle" | "parse" | "call" | "shape" | "telemetry" | "done" | "crashed"
    req,        \* the *http.Request being served (or NoReq)
    arg,        \* the value reflect.New(argType) allocated for this request
    bodyRead,   \* TRUE once the framework has read from r.Body
    did,        \* what the callable did when it was called (or NotCalled)
    out,        \* doServiceMethodCall's results: [out, ps]
    respData,   \* the local respData of ServeHTTPWithParams
    rw,         \* the http.ResponseWriter, with the log of what the request did
    hook,       \* the fields the MethodCallLogger received, in order
    accessLog,  \* the rows the AccessLogDecorator emitted for the last request
    \* ---- the handler that dispatches on the method name (service_handler.go)
    dh,         \* the *ServiceHandler: its key and its methods map
    dpc,        \* "idle" | "serve" | "call" | "shape" | "telemetry" | "done" | "crashed"
    dreq,       \* the request: its URL path and the rest of it (or NoDReq)
    dcall,      \* the locals of ServeHTTP: args, what the callee did, out, respData
    drw,        \* the http.ResponseWriter of the request
    dhook,      \* the fields the MethodCallLogger received, in order
    \* ---- requests served at the same time by one handler (net/http runs
    \*      ServeHTTPWithParams in one goroutine per connection)
    ch,         \* the *ServiceHandler they share
    workers,    \* per goroutine: its position, its request, its arg pointer
    heap,       \* the argument values reflect.New allocated, by address
    \* ---- the rotating access-log writer (service_handler.go, logger)
    lopt,       \* the *AccessLogOptions given to newLogger (or NoOptions)
    lg,         \* the *logger newLogger returned (or NoLogger)
    lerr,       \* the error newLogger returned
    logFile,    \* l.logFile: the name of the open file (or NoFile)
    disk,       \* every line written so far with the file it went to, in order
    fileLineChannel, \* l.fileLineChannel: the lines sent and not yet received
    lclosed,    \* TRUE once close(l.fileLineChannel) was called
    now,        \* time.Now(), in seconds
    lwpc,        \* the writer goroutine: "none" | "running" | "terminated"
    spc,        \* the caller of stop(): "idle" | "waiting" | "returned"
    sent,       \* the lines writeLogRow sent to the channel, in order
    lrow,       \* the row of the last writeLogRow call
    lres        \* how that call ended: "none" | "sent" | a panic

regVars   == <<regPc, router, regRoute, regOut, regResult>>
serveVars == <<h, pc, req, arg, bodyRead, did, out, respData, rw, hook, accessLog>>
dispVars  == <<dh, dpc, dreq, dcall, drw, dhook>>
concVars  == <<ch, workers, heap>>
logVars   == <<lopt, lg, lerr, logFile, disk, fileLineChannel, lclosed, now,
               lwpc, spc, sent, lrow, lres>>
otherVars == <<dispVars, concVars, logVars>>
vars      == <<regVars, serveVars, otherVars>>

Nil == "nil"

(***************************************************************************)
(* Bounds of the model.                                                    *)
(***************************************************************************)
MaxRoutes == 2      \* routes in one list given to NewHTTPRouter
MaxParts  == 2      \* parts in one multipart body
MaxWorkers == 2     \* requests served at the same time
MaxLines  == 3      \* calls of writeLogRow on one logger
MaxClock  == 4      \* half minutes the clock advances while the logger lives

(***************************************************************************)
(* reflect.Type, as far as the prototype checks look at it.                *)
(*   kind      Kind()                                                      *)
(*   elemKind  Elem().Kind() of a pointer                                  *)
(*   elemName  Elem().Name() of a pointer: the name without its package    *)
(*   str       String(): the package-qualified spelling                    *)
(***************************************************************************)
GoType(kind, elemKind, elemName, str) ==
    [kind |-> kind, elemKind |-> elemKind, elemName |-> elemName, str |-> str]

CtxPtr        == GoType("Ptr", "Struct", "ServiceMethodContext", "*kellyframework.ServiceMethodContext")
ForeignCtxPtr == GoType("Ptr", "Struct", "ServiceMethodContext", "*other.ServiceMethodContext")
StructPtr     == GoType("Ptr", "Struct", "", "*struct {}")
CtxValue      == GoType("Struct", "none", "none", "kellyframework.ServiceMethodContext")

PlainPtr      == GoType("Ptr", "Struct", "plain", "*main.plain")
ValidatorPtr  == GoType("Ptr", "Struct", "validatorEnabled", "*main.validatorEnabled")
FileListPtr   == GoType("Ptr", "Slice", "", "*[]*kellyframework.File")
IntListPtr    == GoType("Ptr", "Slice", "", "*[]int")
IntPtr        == GoType("Ptr", "Int", "int", "*int")
StructValue   == GoType("Struct", "none", "none", "struct {}")

FirstInputs  == {CtxPtr, ForeignCtxPtr, StructPtr, CtxValue}
SecondInputs == {PlainPtr, ValidatorPtr, FileListPtr, IntListPtr, IntPtr, StructValue}

\* the result types of a callable, each by its String(): none, one (error,
\* a non-error type, the empty interface) or two
ErrorType == "error"
Outputs ==
    {<<>>, <<ErrorType>>, <<"int">>, <<"interface {}">>,
     <<"*main.result", ErrorType>>, <<"int", "int">>}

\* reflect.TypeOf(method): a non-function value, or a function type with its
\* In(i), Out(i) and NumOut()
MethodType(kind, ins, outs) == [kind |-> kind, in |-> ins, out |-> outs, numOut |-> Len(outs)]

MethodTypes ==
    {MethodType("Int", <<>>, <<>>)}
    \cup {MethodType("Func", <<>>, o) : o \in {<<>>, <<ErrorType>>}}
    \cup {MethodType("Func", <<CtxPtr>>, <<ErrorType>>)}
    \cup {MethodType("Func", <<CtxPtr, PlainPtr, PlainPtr>>, <<ErrorType>>)}
    \cup {MethodType("Func", <<a, b>>, o) : a \in FirstInputs, b \in SecondInputs, o \in Outputs}

(***************************************************************************)
(* checkServiceMethodPrototype: the first failing check decides the error. *)
(***************************************************************************)
checkServiceMethodPrototype(methodType) ==
    IF methodType.kind # "Func"
    THEN "you should provide a function or object method"
    ELSE IF Len(methodType.in) # 2
    THEN "the service method should have two arguments"
    ELSE IF methodType.in[1].kind # "Ptr" \/ methodType.in[1].elemName # "ServiceMethodContext"
    THEN "the first argument should be type *ServiceMethodContext"
    ELSE IF methodType.in[2].kind # "Ptr"
            \/ (methodType.in[2].elemKind # "Struct" /\ methodType.in[2].elemKind # "Slice")
    THEN "the second argument should be a struct pointer or array"
    ELSE IF methodType.numOut # 1
    THEN "the service method should have only one return value"
    ELSE Nil

\* (mutant) any list is taken for the file list
checkFileModeMethodPrototype_AnyList(methodType) ==
    IF methodType.in[2].elemKind # "Slice"
    THEN "the second argument must be []*File on the filemode"
    ELSE Nil

checkFileModeMethodPrototype(methodType) ==
    IF methodType.in[2].str # FileListPtr.str
    THEN "the second argument must be []*File on the filemode"
    ELSE Nil


(***************************************************************************)
(* NewServiceHandler.  h and err are named results: the file-mode check    *)
(* assigns err, and the function returns whatever err then holds.          *)
(***************************************************************************)
ServiceHandler(method, loggerContextKey, bypassRequestBody, bypassResponseBody, filemode) ==
    [isNil              |-> FALSE,
     loggerContextKey   |-> loggerContextKey,
     method             |-> [type |-> method, argType |-> method.in[2]],
     bypassRequestBody  |-> bypassRequestBody,
     bypassResponseBody |-> bypassResponseBody,
     filemode           |-> filemode]

\* the nil *ServiceHandler
NoHandler ==
    [isNil |-> TRUE, loggerContextKey |-> Nil,
     method |-> [type |-> MethodType("none", <<>>, <<>>), argType |-> GoType("none", "none", "none", "")],
     bypassRequestBody |-> FALSE, bypassResponseBody |-> FALSE, filemode |-> FALSE]

NewServiceHandler(method, loggerContextKey, bypassRequestBody, bypassResponseBody, filemode) ==
    LET err1 == checkServiceMethodPrototype(method)
    IN  IF err1 # Nil
        THEN [h |-> NoHandler, err |-> err1]
        ELSE LET err2 == checkFileModeMethodPrototype(method)
             IN  IF err2 # Nil /\ filemode
                 THEN [h |-> NoHandler, err |-> err2]
                 ELSE [h   |-> ServiceHandler(method, loggerContextKey, bypassRequestBody,
                                              bypassResponseBody, filemode),
                       err |-> err2]

(***************************************************************************)
(* Route, and the routes a caller may list.                                *)
(***************************************************************************)
Route(function, bypassRequestBody, bypassResponseBody, filemode) ==
    [Function           |-> function,
     BypassRequestBody  |-> bypassRequestBody,
     BypassResponseBody |-> bypassResponseBody,
     Filemode           |-> filemode]

NoRoute == Route(MethodType("none", <<>>, <<>>), FALSE, FALSE, FALSE)

Routes ==
    {Route(f, FALSE, FALSE, FALSE) : f \in MethodTypes}
    \cup {Route(f, TRUE, FALSE, FALSE) : f \in MethodTypes}
    \cup {Route(f, FALSE, FALSE, TRUE) : f \in MethodTypes}

\* utils.go: the key NewHTTPRouter hands to every handler (a non-nil string)
ServiceHandlerAccessLogRowFillerContextKey == "kellyframework.ServiceHandlerAccessLogRowFiller"

NoOut    == [h |-> NoHandler, err |-> Nil]
NoResult == [router |-> Nil, err |-> Nil]

(***************************************************************************)
(* NewHTTPRouter: httprouter.New(), then RegisterFunctionsToHTTPRouter's   *)
(* loop, one route per step; the first error ends the loop and             *)
(* NewHTTPRouter returns (nil, err).                                       *)
(***************************************************************************)
NewHTTPRouter ==
    /\ regPc = "idle"
    /\ regPc' = "loop"
    /\ router' = <<>>
    /\ regRoute' = NoRoute
    /\ regOut' = NoOut
    /\ regResult' = NoResult
    /\ UNCHANGED <<serveVars, otherVars>>

RegisterFunctionsToHTTPRouter(rt) ==
    /\ regPc = "loop"
    /\ Len(router) < MaxRoutes
    /\ LET r == NewServiceHandler(rt.Function, ServiceHandlerAccessLogRowFillerContextKey,
                                  rt.BypassRequestBody, rt.BypassResponseBody, rt.Filemode)
       IN  /\ regRoute' = rt
           /\ regOut' = r
           /\ IF r.err # Nil
              THEN /\ router' = router
                   /\ regPc' = "returned"
                   /\ regResult' = [router |-> Nil, err |-> r.err]
              ELSE /\ router' = Append(router, [Path |-> Len(router) + 1, handler |-> r.h])
                   /\ regPc' = "loop"
                   /\ regResult' = regResult
    /\ UNCHANGED <<serveVars, otherVars>>

RegisterReturn ==
    /\ regPc = "loop"
    /\ regPc' = "returned"
    /\ regResult' = [router |-> router, err |-> Nil]
    /\ UNCHANGED <<router, regRoute, regOut>>
    /\ UNCHANGED <<serveVars, otherVars>>

RegisterAgain ==
    /\ regPc = "returned"
    /\ regPc' = "idle"
    /\ UNCHANGED <<router, regRoute, regOut, regResult>>
    /\ UNCHANGED <<serveVars, otherVars>>

(***************************************************************************)
(* Requests.  The argument structs of the model have one int field, A;     *)
(* validatorEnabled tags it `validate:"required"`, plain does not.         *)
(* Every source spells a value as text: "0".."3" are numbers, "x" is a     *)
(* query/path value that is no number, "str" a JSON string token.          *)
(***************************************************************************)
NoValue == "absent"

Digits   == {"0", "1", "2", "3"}
StrToInt == [s \in Digits |-> CASE s = "0" -> 0 [] s = "1" -> 1 [] s = "2" -> 2 [] s = "3" -> 3]

QueryValues == {NoValue, "1", "x"}
BodyValues  == {NoValue, "0", "2", "str"}
PathValues  == {NoValue, "3", "x"}

\* r.URL.RawQuery: well-formed with or without a value for a, or malformed ("%zz")
Query(ok, a) == [ok |-> ok, A |-> a]
Queries == {Query(TRUE, a) : a \in QueryValues} \cup {Query(FALSE, NoValue)}

\* one part of a multipart body
Part(formName, fileName) == [FormName |-> formName, FileName |-> fileName]
FilePart    == Part("file", "hosts")
NonFilePart == Part("note", "")

\* r.Body: a text (empty, no JSON value, or one JSON object, with or without
\* bytes after it), url-encoded form pairs (of keys the argument does not
\* have, well-formed or with a bad escape), or a multipart stream that ends
\* with io.EOF or breaks
TextBody(syntax, a, trailing) ==
    [kind |-> "text", syntax |-> syntax, A |-> a, trailing |-> trailing,
     parts |-> <<>>, end |-> "EOF"]
MultipartBody(parts, end) ==
    [kind |-> "multipart", syntax |-> "none", A |-> NoValue, trailing |-> FALSE,
     parts |-> parts, end |-> end]

FormBody(ok) ==
    [kind |-> "form", syntax |-> IF ok THEN "pairs" ELSE "invalid", A |-> NoValue,
     trailing |-> FALSE, parts |-> <<>>, end |-> "EOF"]

PartLists == UNION {[1..n -> {FilePart, NonFilePart}] : n \in 0..MaxParts}

JSONBodies ==
    {TextBody("empty", NoValue, FALSE), TextBody("invalid", NoValue, FALSE)}
    \cup {TextBody("object", a, FALSE) : a \in BodyValues}
    \cup {TextBody("object", a, TRUE) : a \in {NoValue, "2"}}
MultipartBodies == {MultipartBody(ps, e) : ps \in PartLists, e \in {"EOF", "error"}}

ContentTypeJSON      == "application/json"
ContentTypeMultipart == "multipart/form-data"
ContentTypePlain     == "text/plain"
ContentTypeForm      == "application/x-www-form-urlencoded"

Request(method, query, contentType, body, params, logger) ==
    [method |-> method, query |-> query, contentType |-> contentType, body |-> body,
     params |-> params, logger |-> logger]

NoReq == Request("", Query(TRUE, NoValue), "", TextBody("empty", NoValue, FALSE), NoValue, FALSE)

\* the requests sent to handler hd; logger: whether the request context holds
\* a MethodCallLogger under the handler's key
RequestsFor(hd) ==
    IF hd.filemode
    THEN {Request("POST", Query(TRUE, a), ContentTypeMultipart, b, p, l) :
            a \in {NoValue, "1"}, b \in MultipartBodies, p \in {NoValue, "3"}, l \in BOOLEAN}
         \cup {Request("POST", Query(TRUE, NoValue), ContentTypeJSON, TextBody("object", "2", FALSE),
                       NoValue, l) :
            l \in BOOLEAN}
    ELSE {Request("POST", q, ContentTypeJSON, b, p, l) :
            q \in Queries, b \in JSONBodies, p \in PathValues, l \in BOOLEAN}
         \cup {Request("POST", q, ContentTypePlain, b, p, l) :
            q \in Queries, b \in {TextBody("empty", NoValue, FALSE), TextBody("object", "2", FALSE)},
            p \in PathValues, l \in BOOLEAN}
         \cup {Request(m, Query(TRUE, a), ContentTypeForm, FormBody(ok), NoValue, l) :
            m \in {"GET", "POST"}, a \in {NoValue, "1"}, ok \in BOOLEAN, l \in BOOLEAN}

(***************************************************************************)
(* The bound argument: reflect.New(argType) is the zero value.             *)
(***************************************************************************)
Arg(a, files) == [A |-> a, files |-> files]
NewArg == Arg(0, <<>>)

\* what a decoding step returns: the error, the argument after the step, and
\* whether the step panicked
Bound(err, a)  == [err |-> err, arg |-> a, panicked |-> FALSE]
Panicked(a)    == [err |-> Nil, arg |-> a, panicked |-> TRUE]

IsStructPtr(t) == t.kind = "Ptr" /\ t.elemKind = "Struct"

\* r.ParseForm(): for POST, PUT and PATCH with the url-encoded content type
\* it reads r.Body to its end and parses it, then the query string; a bad
\* escape in either is its error
readsFormBody(r) == r.method \in {"POST", "PUT", "PATCH"} /\ r.contentType = ContentTypeForm

ParseForm(r) ==
    IF (readsFormBody(r) /\ r.body.syntax = "invalid") \/ ~r.query.ok
    THEN "invalid URL escape"
    ELSE Nil

\* formDecoder.Decode(arg, values) of gorilla/schema with IgnoreUnknownKeys:
\* dst must point to a struct; a key sets its field from the text, a text that
\* is no number is a conversion error, an absent key leaves the field alone
formDecode(argType, a, value) ==
    IF ~IsStructPtr(argType)
    THEN Bound("schema: interface must be a pointer to struct", a)
    ELSE IF value = NoValue
    THEN Bound(Nil, a)
    ELSE IF value \in Digits
    THEN Bound(Nil, [a EXCEPT !.A = StrToInt[value]])
    ELSE Bound("schema: error converting value for A", a)

\* json.NewDecoder(r.Body).Decode(arg): reads the first JSON value of the
\* stream and stops; bytes after it are not looked at
jsonDecode(a, body) ==
    IF body.syntax = "empty"
    THEN Bound("EOF", a)
    ELSE IF body.syntax # "object"
    THEN Bound("invalid character '3' looking for beginning of object key string", a)
    ELSE IF body.A = NoValue
    THEN Bound(Nil, a)
    ELSE IF body.A \in Digits
    THEN Bound(Nil, [a EXCEPT !.A = StrToInt[body.A]])
    ELSE Bound("json: cannot unmarshal string into Go struct field .A of type int", a)

\* (mutant) the required tag is not enforced
validateStruct_NeverFails(argType, a) == Nil

\* h.validator.Struct(arg): `required` fails on the zero value
validateStruct(argType, a) ==
    IF ~IsStructPtr(argType)
    THEN "validator: (nil *[]*File)"
    ELSE IF argType = ValidatorPtr /\ a.A = 0
    THEN "Key: 'validatorEnabled.A' Error:Field validation for 'A' failed on the 'required' tag"
    ELSE Nil

(***************************************************************************)
(* handleUploadfile: r.MultipartReader() fails unless the request is       *)
(* multipart; then the loop takes one part per round.  Only io.EOF ends    *)
(* the loop: after any other error part is nil and part.FileName()         *)
(* dereferences it, a run-time panic.                                      *)
(***************************************************************************)
File(part, i) == [FormName |-> part.FormName, FileName |-> part.FileName, Content |-> i]

\* (mutant) parts without a file name are kept
uploadLoop_KeepAll(body, i, result) ==
    [files |-> [j \in DOMAIN body.parts |-> File(body.parts[j], j)],
     err |-> Nil, panicked |-> body.end # "EOF"]

RECURSIVE uploadLoop(_, _, _)
uploadLoop(body, i, result) ==
    IF i > Len(body.parts)
    THEN IF body.end = "EOF"
         THEN [files |-> result, err |-> Nil, panicked |-> FALSE]
         ELSE [files |-> result, err |-> Nil, panicked |-> TRUE]
    ELSE IF body.parts[i].FileName # ""
    THEN uploadLoop(body, i + 1, Append(result, File(body.parts[i], i)))
    ELSE uploadLoop(body, i + 1, result)

handleUploadfile(r) ==
    IF r.contentType # ContentTypeMultipart
    THEN [files |-> <<>>, err |-> "request Content-Type isn't multipart/form-data", panicked |-> FALSE]
    ELSE uploadLoop(r.body, 1, <<>>)

(***************************************************************************)
(* ServiceHandler.parseArgument: file mode replaces the pipeline; else     *)
(* query string, then JSON body, then path captures, then validation.      *)
(* The result also says whether r.Body was read.                           *)
(***************************************************************************)
Parsed(b, read) == [err |-> b.err, arg |-> b.arg, panicked |-> b.panicked, bodyRead |-> read]

readsJSONBody(hd, r) == ~hd.bypassRequestBody /\ r.contentType = ContentTypeJSON

\* (mutant) the JSON body decoded after the path captures
parseArgument_BodyAfterPath(hd, r, a) ==
    IF hd.filemode
    THEN LET up == handleUploadfile(r)
         IN  [err |-> up.err, arg |-> [a EXCEPT !.files = up.files],
              panicked |-> up.panicked, bodyRead |-> r.contentType = ContentTypeMultipart]
    ELSE IF ParseForm(r) # Nil
    THEN Parsed(Bound(ParseForm(r), a), readsFormBody(r))
    ELSE LET q == formDecode(hd.method.argType, a, r.query.A)
         IN  IF q.err # Nil
             THEN Parsed(q, readsFormBody(r))
             ELSE LET p == formDecode(hd.method.argType, q.arg, r.params)
                  IN  IF p.err # Nil
                      THEN Parsed(p, readsFormBody(r))
                      ELSE LET j == IF readsJSONBody(hd, r) THEN jsonDecode(p.arg, r.body) ELSE p
                           IN  IF j.err # Nil
                               THEN Parsed(j, TRUE)
                               ELSE Parsed(Bound(validateStruct(hd.method.argType, j.arg), j.arg),
                                           readsFormBody(r) \/ readsJSONBody(hd, r))

parseArgument(hd, r, a) ==
    IF hd.filemode
    THEN LET up == handleUploadfile(r)
         IN  [err |-> up.err, arg |-> [a EXCEPT !.files = up.files],
              panicked |-> up.panicked, bodyRead |-> r.contentType = ContentTypeMultipart]
    ELSE IF ParseForm(r) # Nil
    THEN Parsed(Bound(ParseForm(r), a), readsFormBody(r))
    ELSE LET q == formDecode(hd.method.argType, a, r.query.A)
         IN  IF q.err # Nil
             THEN Parsed(q, readsFormBody(r))
             ELSE LET j == IF readsJSONBody(hd, r) THEN jsonDecode(q.arg, r.body) ELSE q
                  IN  IF j.err # Nil
                      THEN Parsed(j, TRUE)
                      ELSE LET p == formDecode(hd.method.argType, j.arg, r.params)
                           IN  IF p.err # Nil
                               THEN Parsed(p, readsFormBody(r) \/ readsJSONBody(hd, r))
                               ELSE Parsed(Bound(validateStruct(hd.method.argType, p.arg), p.arg),
                                           readsFormBody(r) \/ readsJSONBody(hd, r))

(***************************************************************************)
(* http.ResponseWriter, as net/http implements it: the first WriteHeader   *)
(* fixes the status and the headers that go out, a Write before any        *)
(* WriteHeader sends 200, and a later WriteHeader changes nothing.         *)
(* log lists, in order, the calls made on the writer and the other steps   *)
(* of the request (the call of the callable, the Record calls).            *)
(***************************************************************************)
HeaderNoSniff == "x-content-type-options: nosniff"
HeaderJSON    == "Content-Type: application/json"

Event(op, v) == [op |-> op, v |-> v]
Logged(w, op, v) == [w EXCEPT !.log = Append(@, Event(op, v))]

NewResponseWriter ==
    [header |-> {}, wroteHeader |-> FALSE, status |-> 0, sentHeader |-> {}, body |-> <<>>,
     log |-> <<>>]

HeaderSet(w, line) == Logged([w EXCEPT !.header = @ \cup {line}], "Header.Set", 0)

SendHeader(w, code) ==
    IF w.wroteHeader
    THEN w
    ELSE [w EXCEPT !.wroteHeader = TRUE, !.status = code, !.sentHeader = w.header]

WriteHeader(w, code) == Logged(SendHeader(w, code), "WriteHeader", code)

Write(w, chunk) == Logged([SendHeader(w, 200) EXCEPT !.body = Append(@, chunk)], "Write", 0)

(***************************************************************************)
(* FormattedResponse and the two response writers of the handler.          *)
(***************************************************************************)
FormattedResponse(code, msg, data) == [Code |-> code, Msg |-> msg, Data |-> data]

\* what json.NewEncoder(w).Encode writes: the envelope {"code","msg","data"},
\* or the bare value
EnvelopeChunk(resp) == [shape |-> "envelope", code |-> resp.Code, msg |-> resp.Msg, data |-> resp.Data]
ValueChunk(data)    == [shape |-> "value", code |-> 0, msg |-> "", data |-> data]
RawChunk            == [shape |-> "raw", code |-> 0, msg |-> "", data |-> "bytes of the callable"]

\* (mutant) the sniffing header is left out
setResponseHeader_JSONOnly(w) == HeaderSet(w, HeaderJSON)

setResponseHeader(w) == HeaderSet(HeaderSet(w, HeaderNoSniff), HeaderJSON)

\* a value encoding/json cannot marshal (a chan, a func): Encode returns an
\* error, which writeResponse drops, and writes nothing
Unencodable == "chan int"

Encodable(data) == data # Unencodable

\* (mutant) the value goes out inside an envelope
writeResponse_Enveloped(w, data) ==
    Write(setResponseHeader(Logged(w, "writeResponse", 0)),
          EnvelopeChunk(FormattedResponse(200, "", data)))

writeResponse(w, data) ==
    IF Encodable(data)
    THEN Write(setResponseHeader(Logged(w, "writeResponse", 0)), ValueChunk(data))
    ELSE setResponseHeader(Logged(w, "writeResponse", 0))

\* (mutant) the status line is not written
writeFormattedResponse_NoStatus(w, resp) ==
    Write(setResponseHeader(Logged(w, "writeFormattedResponse", resp.Code)), EnvelopeChunk(resp))

writeFormattedResponse(w, resp) ==
    Write(WriteHeader(setResponseHeader(Logged(w, "writeFormattedResponse", resp.Code)), resp.Code),
          EnvelopeChunk(resp))

(***************************************************************************)
(* What the registered callable may do when called: write to               *)
(* ctx.ResponseBodyWriter or not, and then panic or return one value.      *)
(* dyn is the dynamic type of the returned interface value.  A panic       *)
(* carries a value, and nil is a value panic takes: recover() then returns *)
(* nil (the run time of Go 1.21 and later hands out a non-nil              *)
(* *runtime.PanicNilError instead, unless GODEBUG=panicnil=1, and such a   *)
(* panic is one with a value).                                             *)
(***************************************************************************)
EnvelopeCodes == {200, 403}

Return(dyn, ptrNil, resp) == [dyn |-> dyn, ptrNil |-> ptrNil, resp |-> resp]

NoResp         == FormattedResponse(0, "", "")
RetNil         == Return("nil", FALSE, NoResp)
RetError       == Return("error", FALSE, FormattedResponse(0, "", "expected error"))
RetValue       == Return("value", FALSE, FormattedResponse(0, "", "result"))
RetUnencodable == Return("value", FALSE, FormattedResponse(0, "", Unencodable))
RetNilEnvelope == Return("*FormattedResponse", TRUE, NoResp)
RetEnvelope(c) == Return("*FormattedResponse", FALSE, FormattedResponse(c, "forbidden", "custom"))

Returns == {RetNil, RetError, RetValue, RetUnencodable, RetNilEnvelope} \cup {RetEnvelope(c) : c \in EnvelopeCodes}

PanicText == "expected panic"

Behaviour(wrote, panics, ret) ==
    [called |-> TRUE, wrote |-> wrote, panics |-> panics,
     value |-> IF panics THEN PanicText ELSE Nil, ret |-> ret]

\* panic(nil)
PanicsWithNil(wrote) == [Behaviour(wrote, TRUE, RetNil) EXCEPT !.value = Nil]

Behaviours ==
    {Behaviour(w, FALSE, r) : w \in BOOLEAN, r \in Returns}
    \cup {Behaviour(w, TRUE, RetNil) : w \in BOOLEAN}
    \cup {PanicsWithNil(w) : w \in BOOLEAN}

PanicStack == [Panic |-> PanicText, Stack |-> "goroutine 1 [running]"]
NoPanic    == [Panic |-> Nil, Stack |-> Nil]

\* (mutant) the recovered panic is not handed back
doServiceMethodCall_NoRecover(b) ==
    [out |-> IF b.panics THEN <<>> ELSE <<b.ret>>, ps |-> NoPanic]

\* doServiceMethodCall: the deferred function sets ps when recover() returns
\* a non-nil value; out is assigned only when the call returns
doServiceMethodCall(b) ==
    IF b.panics
    THEN [out |-> <<>>, ps |-> IF b.value # Nil THEN PanicStack ELSE NoPanic]
    ELSE [out |-> <<b.ret>>, ps |-> NoPanic]

NoCall == [out |-> <<>>, ps |-> NoPanic]

NotCalled == [called |-> FALSE, wrote |-> FALSE, panics |-> FALSE, value |-> Nil, ret |-> RetNil]

\* the local respData: a nil interface until a branch assigns it
RespNil            == [kind |-> "nil", ptrNil |-> FALSE, resp |-> NoResp]
RespEnvelope(resp) == [kind |-> "*FormattedResponse", ptrNil |-> FALSE, resp |-> resp]
RespNilEnvelope    == [kind |-> "*FormattedResponse", ptrNil |-> TRUE, resp |-> NoResp]
RespValue(ret)     == [kind |-> ret.dyn, ptrNil |-> FALSE, resp |-> ret.resp]

\* (mutant) a declared error answered with status 200
errorResponse_OK(err) == FormattedResponse(200, "service method error", err)

\* (mutant) the bypass flag is not looked at
encodesValue_Always(hd) == TRUE

\* the envelopes ServeHTTPWithParams builds itself
parseFailedResponse(err) == FormattedResponse(400, "parse argument failed", err)
panickedResponse(ps)     == FormattedResponse(500, "service method panicked", ps)
errorResponse(err)       == FormattedResponse(500, "service method error", err)

\* (mutant) a returned error is not recognised
isError_Never(methodReturn) == FALSE

\* the branch conditions of the response switch
isFormattedResponse(methodReturn) == methodReturn.dyn = "*FormattedResponse"
isError(methodReturn)             == methodReturn.dyn = "error"
encodesValue(hd)                  == ~hd.bypassResponseBody

\* "write returned value or error to response": the switch on the outcome of
\* the call; gives respData and the writer after it
Shaped(data, w) == [respData |-> data, rw |-> w, panicked |-> FALSE]

shapeResponse(hd, o, w) ==
    IF o.ps = NoPanic /\ Len(o.out) # 1
    THEN [respData |-> RespNil, rw |-> w, panicked |-> TRUE]
    ELSE IF o.ps # NoPanic
    THEN Shaped(RespEnvelope(panickedResponse(o.ps)),
                writeFormattedResponse(w, panickedResponse(o.ps)))
    ELSE LET methodReturn == o.out[1]
         IN  IF isFormattedResponse(methodReturn)
             THEN IF ~methodReturn.ptrNil
                  THEN Shaped(RespEnvelope(methodReturn.resp),
                              writeFormattedResponse(w, methodReturn.resp))
                  ELSE Shaped(RespNilEnvelope, w)
             ELSE IF isError(methodReturn)
             THEN Shaped(RespEnvelope(errorResponse(methodReturn.resp.Data)),
                         writeFormattedResponse(w, errorResponse(methodReturn.resp.Data)))
             ELSE IF encodesValue(hd)
             THEN Shaped(RespValue(methodReturn), writeResponse(w, methodReturn.resp.Data))
             ELSE Shaped(RespNil, w)

(***************************************************************************)
(* ServeHTTPWithParams, one step per stage.                                *)
(***************************************************************************)
\* AccessLogDecorator (access_log_decorator.go): the handler is given a
\* statusResponseWriter, whose status starts as http.StatusOK and takes the
\* argument of every WriteHeader call made on it
RECURSIVE statusRecorded(_, _)
statusRecorded(log, status) ==
    IF log = <<>> THEN status
    ELSE statusRecorded(Tail(log),
                        IF Head(log).op = "WriteHeader" THEN Head(log).v ELSE status)

swStatus(w) == statusRecorded(w.log, 200)

FixedFields ==
    {"beginTime", "status", "duration", "remote", "httpMethod", "uri", "headers"}

\* the row the decorator logs after d.Handler.ServeHTTP(sw, r) has returned:
\* the fields the MethodCallLogger set, the fixed fields, and the level
decoratorRow(w, telemetry) ==
    [status |-> swStatus(w),
     level  |-> IF swStatus(w) < 400 THEN "info" ELSE "error",
     fields |-> {telemetry[i].field : i \in 1..Len(telemetry)} \cup FixedFields,
     telemetry |-> telemetry]

\* a request arrives at the decorator, which makes the row and the
\* statusResponseWriter and calls the handler: tracer, argType,
\* reflect.New(argType)
Receive(r) ==
    /\ pc = "idle"
    /\ pc' = "parse"
    /\ req' = r
    /\ arg' = NewArg
    /\ rw' = NewResponseWriter
    /\ bodyRead' = FALSE
    /\ did' = NotCalled
    /\ out' = NoCall
    /\ respData' = RespNil
    /\ hook' = <<>>
    /\ accessLog' = <<>>
    /\ UNCHANGED <<h, regVars, otherVars>>

\* h.parseArgument and the 400 answer to its error
ParseArgument ==
    /\ pc = "parse"
    /\ LET p == parseArgument(h, req, arg)
       IN  /\ arg' = p.arg
           /\ bodyRead' = p.bodyRead
           /\ IF p.panicked
              THEN /\ pc' = "crashed"
                   /\ rw' = rw
              ELSE IF p.err # Nil
              THEN /\ rw' = writeFormattedResponse(rw, parseFailedResponse(p.err))
                   /\ pc' = "done"
              ELSE /\ pc' = "call"
                   /\ rw' = rw
    /\ UNCHANGED <<h, req, did, out, respData, hook, accessLog, regVars, otherVars>>

\* doServiceMethodCall: the callable runs with ctx and arg
CallMethod(b) ==
    /\ pc = "call"
    /\ did' = b
    /\ out' = doServiceMethodCall(b)
    /\ rw' = IF b.wrote
             THEN Write(Logged(rw, "call", 0), RawChunk)
             ELSE Logged(rw, "call", 0)
    /\ pc' = "shape"
    /\ UNCHANGED <<h, req, arg, bodyRead, respData, hook, accessLog, regVars, otherVars>>

\* write returned value or error to response
Shape ==
    /\ pc = "shape"
    /\ LET s == shapeResponse(h, out, rw)
       IN  /\ respData' = s.respData
           /\ rw' = s.rw
           /\ pc' = IF s.panicked THEN "crashed" ELSE "telemetry"
    /\ UNCHANGED <<h, req, arg, bodyRead, did, out, hook, accessLog, regVars, otherVars>>

\* record some thing if logger existed: the type assertion on a context
\* without the logger panics, and so does a respData json.Marshal refuses
recordsTelemetry(hd) == hd.loggerContextKey # Nil

marshals(data) == ~(data.kind = "value" /\ ~Encodable(data.resp.Data))

\* (mutant) the duration is not recorded
TelemetryFields_NoDuration(a, data) ==
    << [field |-> "methodCallArgument", value |-> a],
       [field |-> "methodCallResponseData", value |-> data],
       [field |-> "methodCallBeginTime", value |-> "beginTime"] >>

TelemetryFields(a, data) ==
    << [field |-> "methodCallArgument", value |-> a],
       [field |-> "methodCallResponseData", value |-> data],
       [field |-> "methodCallBeginTime", value |-> "beginTime"],
       [field |-> "methodCallDuration", value |-> "duration"] >>

RECURSIVE LoggedAll(_, _, _)
LoggedAll(w, op, n) == IF n = 0 THEN w ELSE LoggedAll(Logged(w, op, 0), op, n - 1)

Telemetry ==
    /\ pc = "telemetry"
    /\ IF ~recordsTelemetry(h)
       THEN /\ pc' = "done"
            /\ UNCHANGED <<hook, rw>>
       ELSE IF ~req.logger \/ ~marshals(respData)
       THEN /\ pc' = "crashed"
            /\ UNCHANGED <<hook, rw>>
       ELSE /\ hook' = hook \o TelemetryFields(arg, respData)
            /\ rw' = LoggedAll(rw, "Record", Len(TelemetryFields(arg, respData)))
            /\ pc' = "done"
    /\ UNCHANGED <<h, req, arg, bodyRead, did, out, respData, accessLog, regVars, otherVars>>

\* ServeHTTPWithParams has returned, or its panic has left it: the handler
\* takes the next request.  After a return the decorator logs the row; a
\* panic passes through the decorator, which has no deferred call, and
\* net/http recovers it
Finish ==
    /\ pc \in {"done", "crashed"}
    /\ pc' = "idle"
    /\ accessLog' = IF pc = "done" THEN <<decoratorRow(rw, hook)>> ELSE <<>>
    /\ req' = NoReq
    /\ arg' = NewArg
    /\ rw' = NewResponseWriter
    /\ bodyRead' = FALSE
    /\ did' = NotCalled
    /\ out' = NoCall
    /\ respData' = RespNil
    /\ hook' = <<>>
    /\ UNCHANGED <<h, regVars, otherVars>>

(***************************************************************************)
(* The handler that dispatches on the method name (service_handler.go):    *)
(* one ServiceHandler holds a map of named methods; a callee has the       *)
(* prototype  func(ctx, arg) error  or  func(ctx, arg) (result, error).    *)
(***************************************************************************)
Names == {"add", "get"}

\* Kind(), Elem().Kind() and Name() of a result type, from its String()
OutKind(t) ==
    CASE t = ErrorType      -> "Interface"
      [] t = "interface {}" -> "Interface"
      [] t = "*main.result" -> "Ptr"
      [] OTHER              -> "Int"
OutElemKind(t) == IF t = "*main.result" THEN "Struct" ELSE "none"
OutName(t)     == IF t \in {ErrorType, "int"} THEN t ELSE ""

\* the checks of RegisterMethodWithName: the error it returns, or Nil
calleeError(calleeType) ==
    IF calleeType.kind # "Func"
    THEN "you should register a function or object method"
    ELSE IF Len(calleeType.in) # 2
    THEN "the service method should have two arguments"
    ELSE IF calleeType.in[1].kind # "Ptr" \/ calleeType.in[1].elemName # "ServiceMethodContext"
    THEN "the first argument should be type *ServiceMethodContext"
    ELSE IF calleeType.in[2].kind # "Ptr" \/ calleeType.in[2].elemKind # "Struct"
    THEN "the second argument should be a struct pointer"
    ELSE IF calleeType.numOut = 2
    THEN IF OutKind(calleeType.out[1]) # "Ptr" \/ OutElemKind(calleeType.out[1]) # "Struct"
         THEN "the first return value should be a struct pointer"
         ELSE IF OutKind(calleeType.out[2]) # "Interface" \/ OutName(calleeType.out[2]) # "error"
         THEN "the second return value should be error interface"
         ELSE Nil
    ELSE IF calleeType.numOut = 1
    THEN IF OutKind(calleeType.out[1]) # "Interface" \/ OutName(calleeType.out[1]) # "error"
         THEN "the return value should be error interface"
         ELSE Nil
    ELSE "the service method should have one or two return values"

\* an entry of h.methods, and the absent entry
serviceMethod(calleeType) ==
    [registered |-> TRUE, type |-> calleeType, argType |-> calleeType.in[2], numOut |-> calleeType.numOut]
NoMethod ==
    [registered |-> FALSE, type |-> MethodType("none", <<>>, <<>>),
     argType |-> GoType("none", "none", "none", ""), numOut |-> 0]

\* NewServiceHandler(methodCallLoggerContextKey) of this variant
NewNamedServiceHandler(key) ==
    [methodCallLoggerContextKey |-> key, methods |-> [n \in Names |-> NoMethod]]

\* the callees offered for registration
Callees ==
    {MethodType("Int", <<>>, <<>>), MethodType("Func", <<CtxPtr, IntPtr>>, <<ErrorType>>)}
    \cup {MethodType("Func", <<CtxPtr, PlainPtr>>, o) : o \in Outputs}
    \cup {MethodType("Func", <<CtxPtr, ValidatorPtr>>, <<"*main.result", ErrorType>>)}

\* req.URL.Path as the list strings.Split(path, "/") makes of it, without the
\* empty string before the leading slash
Paths == {<<"add">>, <<"api", "get">>, <<"get", "nope">>, <<"add", "">>, <<"wrong">>}

\* (mutant) the first segment names the method
extractMethodName_First(path) == path[1]

extractMethodName(path) == path[Len(path)]

DRequest(path, r) == [path |-> path, r |-> r]
NoDReq == DRequest(<<"">>, NoReq)

DRequests ==
    {DRequest(p, Request("POST", Query(TRUE, a), ContentTypeJSON, b, NoValue, l)) :
        p \in Paths, a \in {NoValue, "1"},
        b \in {TextBody("invalid", NoValue, FALSE), TextBody("object", NoValue, FALSE),
               TextBody("object", "2", FALSE)},
        l \in BOOLEAN}
    \cup {DRequest(p, Request("GET", Query(TRUE, a), ContentTypePlain, TextBody("empty", NoValue, FALSE),
                              NoValue, l)) :
        p \in Paths, a \in {NoValue, "1", "x"}, l \in BOOLEAN}

\* newArgumentExtractor and ExtractTo: the JSON extractor decodes the body,
\* the form extractor parses the form and decodes its values
isJSONRequest(r) == r.contentType = ContentTypeJSON

ExtractTo(argType, r, a) ==
    IF isJSONRequest(r)
    THEN jsonDecode(a, r.body)
    ELSE IF ParseForm(r) # Nil
    THEN Bound(ParseForm(r), a)
    ELSE formDecode(argType, a, r.query.A)

\* errorResponseBody as json.Encode writes it
ErrorChunk(code, summary, data) ==
    [shape |-> "errorResponseBody", code |-> code, msg |-> summary, data |-> data]

setJSONResponseHeader(w) == HeaderSet(HeaderSet(w, HeaderNoSniff), HeaderJSON)

writeErrorResponse(w, data, code, summary) ==
    Write(WriteHeader(setJSONResponseHeader(Logged(w, "writeErrorResponse", code)), code),
          ErrorChunk(code, summary, data))

\* a nil *result encodes as null; Encode's error on a value json cannot
\* marshal is dropped, and nothing is written
NilPtr == "null"

\* (mutant) a nil result is not written
writeJSONResponse_SkipNil(w, data) ==
    IF Encodable(data) /\ data # NilPtr
    THEN Write(setJSONResponseHeader(Logged(w, "writeJSONResponse", 0)), ValueChunk(data))
    ELSE setJSONResponseHeader(Logged(w, "writeJSONResponse", 0))

writeJSONResponse(w, data) ==
    IF Encodable(data)
    THEN Write(setJSONResponseHeader(Logged(w, "writeJSONResponse", 0)), ValueChunk(data))
    ELSE setJSONResponseHeader(Logged(w, "writeJSONResponse", 0))

\* what a callee may do: write to ctx.ResponseBodyWriter or not, then panic
\* with a value (nil is a value panic takes) or return its results
ErrText == "expected error"

CalleeReturns(numOut) ==
    IF numOut = 1
    THEN {<<e>> : e \in {Nil, ErrText}}
    ELSE {<<v, e>> : v \in {NilPtr, "result", Unencodable}, e \in {Nil, ErrText}}

CalleeBehaviour(wrote, panics, value, outs) ==
    [called |-> TRUE, wrote |-> wrote, panics |-> panics, value |-> value, outs |-> outs]

CalleeBehaviours(numOut) ==
    {CalleeBehaviour(w, FALSE, Nil, o) : w \in BOOLEAN, o \in CalleeReturns(numOut)}
    \cup {CalleeBehaviour(w, TRUE, v, <<>>) : w \in BOOLEAN, v \in {"expected panic", Nil}}

CalleeNotCalled == [called |-> FALSE, wrote |-> FALSE, panics |-> FALSE, value |-> Nil, outs |-> <<>>]

\* doServiceMethodCall of this variant: panic = recover(), out as Call left it
doNamedMethodCall(b) ==
    IF b.panics
    THEN [out |-> <<>>, panic |-> b.value]
    ELSE [out |-> b.outs, panic |-> Nil]

\* the locals of ServeHTTP
DCall(method, extracted, a, b, o, data) ==
    [method |-> method, extracted |-> extracted, args |-> a, did |-> b, out |-> o.out,
     panic |-> o.panic, respData |-> data]
NoDCall == DCall(NoMethod, FALSE, NewArg, CalleeNotCalled, [out |-> <<>>, panic |-> Nil], Nil)

\* a request arrives
NamedReceive(r) ==
    /\ dpc = "idle"
    /\ dpc' = "serve"
    /\ dreq' = r
    /\ dcall' = NoDCall
    /\ drw' = NewResponseWriter
    /\ dhook' = <<>>
    /\ UNCHANGED <<dh, regVars, serveVars, concVars, logVars>>

\* RegisterMethodWithName(callee, name), between requests
RegisterMethodWithName(callee, name) ==
    /\ dpc = "idle"
    /\ dh' = IF calleeError(callee) = Nil
             THEN [dh EXCEPT !.methods[name] = serviceMethod(callee)]
             ELSE dh
    /\ UNCHANGED <<dpc, dreq, dcall, drw, dhook, regVars, serveVars, concVars, logVars>>

\* method, ok := h.methods[methodName]
lookupMethod(hd, methodName) ==
    IF methodName \in Names THEN hd.methods[methodName] ELSE NoMethod

\* ServeHTTP up to the call: the method is looked up by the name in the path
\* (404 when there is none), the argument is extracted (400 on its error)
\* and validated (400 on a violation)
NamedServe ==
    /\ dpc = "serve"
    /\ LET method == lookupMethod(dh, extractMethodName(dreq.path))
       IN  IF ~method.registered
           THEN /\ drw' = writeErrorResponse(drw, Nil, 404, "service method not found")
                /\ dpc' = "done"
                /\ dcall' = [dcall EXCEPT !.method = method]
           ELSE LET x == ExtractTo(method.argType, dreq.r, NewArg)
                    v == validateStruct(method.argType, x.arg)
                IN  /\ dcall' = [dcall EXCEPT !.method = method, !.extracted = TRUE, !.args = x.arg]
                    /\ IF x.err # Nil
                       THEN /\ drw' = writeErrorResponse(drw, x.err, 400, "parse arguments failed")
                            /\ dpc' = "done"
                       ELSE IF v # Nil
                       THEN /\ drw' = writeErrorResponse(drw, v, 400, "arguments invalid")
                            /\ dpc' = "done"
                       ELSE /\ drw' = drw
                            /\ dpc' = "call"
    /\ UNCHANGED <<dh, dreq, dhook, regVars, serveVars, concVars, logVars>>

\* do method call
NamedCall(b) ==
    /\ dpc = "call"
    /\ b \in CalleeBehaviours(dcall.method.numOut)
    /\ LET o == doNamedMethodCall(b)
       IN  dcall' = [dcall EXCEPT !.did = b, !.out = o.out, !.panic = o.panic]
    /\ drw' = IF b.wrote
              THEN Write(Logged(drw, "call", 0), RawChunk)
              ELSE Logged(drw, "call", 0)
    /\ dpc' = "shape"
    /\ UNCHANGED <<dh, dreq, dhook, regVars, serveVars, concVars, logVars>>

\* write return values or errors to response: methodReturn and methodError
\* from out, then the first branch that applies
methodReturnOf(o) == IF Len(o) = 2 THEN o[1] ELSE Nil
methodErrorOf(o)  == IF Len(o) = 2 THEN o[2] ELSE IF Len(o) = 1 THEN o[1] ELSE Nil

writesResult(o) == Len(o) = 2

shapeNamedResponse(c, w) ==
    IF Len(c.out) \notin {1, 2} /\ c.panic = Nil
    THEN [respData |-> Nil, rw |-> w, panicked |-> TRUE]
    ELSE IF c.panic # Nil
    THEN Shaped(c.panic, writeErrorResponse(w, c.panic, 500, "service method panicked"))
    ELSE IF methodErrorOf(c.out) # Nil
    THEN Shaped(methodErrorOf(c.out),
                writeErrorResponse(w, methodErrorOf(c.out), 500, "service method error"))
    ELSE IF writesResult(c.out)
    THEN Shaped(methodReturnOf(c.out), writeJSONResponse(w, methodReturnOf(c.out)))
    ELSE Shaped(Nil, w)

NamedShape ==
    /\ dpc = "shape"
    /\ LET s == shapeNamedResponse(dcall, drw)
       IN  /\ dcall' = [dcall EXCEPT !.respData = s.respData]
           /\ drw' = s.rw
           /\ dpc' = IF s.panicked THEN "crashed" ELSE "telemetry"
    /\ UNCHANGED <<dh, dreq, dhook, regVars, serveVars, concVars, logVars>>

\* record some thing if logger existed: the type assertion panics on a
\* context without the logger, json.Marshal(respData) on a value it refuses
NamedTelemetry ==
    /\ dpc = "telemetry"
    /\ IF dh.methodCallLoggerContextKey = Nil
       THEN /\ dpc' = "done"
            /\ UNCHANGED <<dhook, drw>>
       ELSE IF ~dreq.r.logger \/ ~Encodable(dcall.respData)
       THEN /\ dpc' = "crashed"
            /\ UNCHANGED <<dhook, drw>>
       ELSE /\ dhook' = dhook \o TelemetryFields(dcall.args, dcall.respData)
            /\ drw' = LoggedAll(drw, "Record", Len(TelemetryFields(dcall.args, dcall.respData)))
            /\ dpc' = "done"
    /\ UNCHANGED <<dh, dreq, dcall, regVars, serveVars, concVars, logVars>>

\* ServeHTTP has returned, or its panic has left it
NamedFinish ==
    /\ dpc \in {"done", "crashed"}
    /\ dpc' = "idle"
    /\ dreq' = NoDReq
    /\ dcall' = NoDCall
    /\ drw' = NewResponseWriter
    /\ dhook' = <<>>
    /\ UNCHANGED <<dh, regVars, serveVars, concVars, logVars>>

DispInit ==
    /\ dpc = "idle"
    /\ dreq = NoDReq
    /\ dcall = NoDCall
    /\ drw = NewResponseWriter
    /\ dhook = <<>>

NoNamedHandler == NewNamedServiceHandler(Nil)

(***************************************************************************)
(* The handlers that serve: built by NewServiceHandler as the tests build  *)
(* them (h, _ := NewServiceHandler ...), from callables that take the      *)
(* context and a pointer to the argument and return one value.             *)
(***************************************************************************)
ServeMethods ==
    {MethodType("Func", <<CtxPtr, t>>, <<"interface {}">>) : t \in {PlainPtr, ValidatorPtr, FileListPtr}}

ServeHandlers ==
    {hd \in {NewServiceHandler(m, k, brq, brs, fm).h :
                m \in ServeMethods,
                k \in {Nil, ServiceHandlerAccessLogRowFillerContextKey},
                brq \in BOOLEAN, brs \in BOOLEAN, fm \in BOOLEAN} : ~hd.isNil}

(***************************************************************************)
(* Requests served at the same time.  Every call of ServeHTTPWithParams    *)
(* runs in its own goroutine on the same *ServiceHandler; arg is a pointer *)
(* into the heap, and the steps of the goroutines interleave.              *)
(***************************************************************************)
Workers == 1..MaxWorkers
Cells   == 0..MaxWorkers

\* (mutant) one argument value per handler, allocated once
reflectNew_Once(w) == 0

\* reflect.New(argType): the address of a new zero value, no other
\* goroutine holds it
reflectNew(w) == w

Worker(wpc, r, addr, seen, status) ==
    [pc |-> wpc, req |-> r, addr |-> addr, seen |-> seen, status |-> status]
IdleWorker == Worker("idle", NoReq, 0, NewArg, 0)

ConcHandlers ==
    {NewServiceHandler(MethodType("Func", <<CtxPtr, t>>, <<"interface {}">>), Nil, FALSE, FALSE, fm).h :
        t \in {PlainPtr, ValidatorPtr}, fm \in {FALSE}}
    \cup {NewServiceHandler(MethodType("Func", <<CtxPtr, FileListPtr>>, <<"interface {}">>),
                            Nil, FALSE, FALSE, TRUE).h}

ConcRequestsFor(hd) ==
    IF hd.filemode
    THEN {Request("POST", Query(TRUE, a), ContentTypeMultipart, MultipartBody(ps, "EOF"), NoValue, FALSE) :
            a \in {NoValue, "1"}, ps \in {<<>>, <<FilePart>>, <<NonFilePart, FilePart>>}}
    ELSE {Request("POST", Query(TRUE, a), ContentTypeJSON, TextBody("object", b, FALSE), p, FALSE) :
            a \in {NoValue, "1"}, b \in {NoValue, "2"}, p \in {NoValue, "3"}}
         \cup {Request("POST", Query(TRUE, "x"), ContentTypeJSON, TextBody("object", "2", FALSE),
                       NoValue, FALSE)}

\* tracer, argType, arg := reflect.New(argType)
ConcReceive(w, r) ==
    /\ workers[w].pc = "idle"
    /\ workers' = [workers EXCEPT ![w] = Worker("parse", r, reflectNew(w), NewArg, 0)]
    /\ heap' = [heap EXCEPT ![reflectNew(w)] = NewArg]
    /\ UNCHANGED <<ch, regVars, serveVars, dispVars, logVars>>

\* h.parseArgument(r, params, arg.Interface()) writes through the pointer
ConcParseArgument(w) ==
    /\ workers[w].pc = "parse"
    /\ LET p == parseArgument(ch, workers[w].req, heap[workers[w].addr])
       IN  /\ heap' = [heap EXCEPT ![workers[w].addr] = p.arg]
           /\ workers' = [workers EXCEPT
                            ![w].pc = IF p.panicked THEN "crashed"
                                      ELSE IF p.err # Nil THEN "done" ELSE "call",
                            ![w].status = IF ~p.panicked /\ p.err # Nil THEN 400 ELSE 0]
    /\ UNCHANGED <<ch, regVars, serveVars, dispVars, logVars>>

\* doServiceMethodCall: the callable reads what arg points to
ConcCallMethod(w) ==
    /\ workers[w].pc = "call"
    /\ workers' = [workers EXCEPT ![w].pc = "done", ![w].seen = heap[workers[w].addr],
                                  ![w].status = 200]
    /\ UNCHANGED <<ch, heap, regVars, serveVars, dispVars, logVars>>

\* ServeHTTPWithParams returns; the goroutine takes the next request
ConcFinish(w) ==
    /\ workers[w].pc \in {"done", "crashed"}
    /\ workers' = [workers EXCEPT ![w] = IdleWorker]
    /\ UNCHANGED <<ch, heap, regVars, serveVars, dispVars, logVars>>

ConcInit ==
    /\ workers = [w \in Workers |-> IdleWorker]
    /\ heap = [c \in Cells |-> NewArg]

(***************************************************************************)
(* The rotating access-log writer (service_handler.go, type logger).       *)
(* Time is counted in seconds and the clock advances by half minutes.  A   *)
(* file name prefix.20060102-15-04.0001 is the pair of its two parts: the  *)
(* time, which the layout keeps to the minute, and the sequence number.    *)
(* The file system is taken to work: OpenFile, Stat and WriteString        *)
(* succeed.                                                                *)
(***************************************************************************)
Minute     == 60
HalfMinute == 30
sequenceStart == 1

\* time.ParseDuration on the strings given as maxTime
ParseError == "time: unknown unit"
MaxTimeOptions == {"3ss", "3s", "1m", "90s"}
ParseDuration(s) ==
    IF s = "3s" THEN [d |-> 3, err |-> Nil]
    ELSE IF s = "1m" THEN [d |-> 60, err |-> Nil]
    ELSE IF s = "90s" THEN [d |-> 90, err |-> Nil]
    ELSE [d |-> 0, err |-> ParseError]

FieldSequence == <<"a", "b">>
MaxSizes == {3, 6}
AccessLogOptions(maxSize, maxTime, fieldSequence) ==
    [maxSize |-> maxSize, maxTime |-> maxTime, fieldSequence |-> fieldSequence]
NoOptions == AccessLogOptions(0, "", <<>>)
LogOptions ==
    {AccessLogOptions(s, t, FieldSequence) : s \in MaxSizes, t \in MaxTimeOptions}

logger(maxSize, maxTime, fieldSequence) ==
    [maxSize |-> maxSize, maxTime |-> maxTime, fieldSequence |-> fieldSequence,
     validRowFields |-> {fieldSequence[i] : i \in 1..Len(fieldSequence)}]
NoLogger == logger(0, 0, <<>>)

\* newLogger up to the start of the writer goroutine: [l, err]
newLogger(options) ==
    LET p == ParseDuration(options.maxTime)
    IN  IF p.err # Nil
        THEN [l |-> NoLogger, err |-> p.err]
        ELSE [l |-> logger(options.maxSize,
                           IF p.d < Minute THEN Minute ELSE p.d,
                           options.fieldSequence),
              err |-> Nil]

\* time.Format(timeLayout): the layout ends with the minute
FormatTime(t) == t - (t % Minute)

\* buildLogFilePath; expectedLogFilePath reads the two parts back with
\* time.ParseInLocation and strconv.Atoi
buildLogFilePath(time, seq) == [time |-> FormatTime(time), seq |-> seq]
NoFile == [time |-> 0, seq |-> 0]

\* what fmt.Sprintln(values...) makes: one line holding the values; its
\* length in bytes is taken as one per value and one for the newline
LineLen(line) == Len(line) + 1

\* finfo.Size() of a file: the bytes appended to it (files start empty)
RECURSIVE FileSize(_, _)
FileSize(file, d) ==
    IF d = <<>> THEN 0
    ELSE (IF Head(d).file = file THEN LineLen(Head(d).line) ELSE 0)
         + FileSize(file, Tail(d))

expectedLogFilePath_SizeFirst(l, cur, t, size) ==
    IF size >= l.maxSize THEN buildLogFilePath(cur.time, cur.seq + 1)
    ELSE IF l.maxTime < t - cur.time THEN buildLogFilePath(t, sequenceStart)
    ELSE buildLogFilePath(cur.time, cur.seq)

\* expectedLogFilePath, for the current file cur, the time t and the size
expectedLogFilePath(l, cur, t, size) ==
    LET fileTime == cur.time
        fileSeq  == cur.seq
    IN  IF l.maxTime < t - fileTime
        THEN buildLogFilePath(t, sequenceStart)
        ELSE IF size >= l.maxSize
             THEN buildLogFilePath(fileTime, fileSeq + 1)
             ELSE buildLogFilePath(fileTime, fileSeq)

\* refreshLogFile: the file the next line goes to
refreshLogFile(l, cur, t, size) ==
    IF cur # NoFile
    THEN expectedLogFilePath(l, cur, t, size)
    ELSE buildLogFilePath(t, sequenceStart)

\* AccessLogRow: a map from field names to values
RowFields == {"a", "b", "x"}
RowValue(f) == IF f = "a" THEN "A" ELSE IF f = "b" THEN "B" ELSE "X"
AccessLogRow(S) == [f \in S |-> RowValue(f)]
NoRow == AccessLogRow({})
Rows == {AccessLogRow(S) : S \in {{"a"}, {"a", "b"}, {"b", "x"}, {"a", "b", "x"}}}

IndexOutOfRange == "runtime error: index out of range"
SendOnClosed    == "send on closed channel"
UnknownRowField == "unknown row field"

\* the first index of the loop of writeLogRow that panics (0: none)
RECURSIVE rowLoopPanic(_, _, _)
rowLoopPanic(l, n, i) ==
    IF i > Len(l.fieldSequence) THEN [at |-> 0, panic |-> Nil]
    ELSE IF l.fieldSequence[i] \notin l.validRowFields
         THEN [at |-> i, panic |-> UnknownRowField]
    ELSE IF i > n THEN [at |-> i, panic |-> IndexOutOfRange]
    ELSE rowLoopPanic(l, n, i + 1)

\* writeLogRow up to the send: values := make([]interface{}, len(row)), then
\* values[i] = row[field] for the i-th field of fieldSequence
writeLogRow(l, row) ==
    LET n == Cardinality(DOMAIN row)
        p == rowLoopPanic(l, n, 1)
    IN  IF p.at # 0
        THEN [panic |-> p.panic, line |-> <<>>]
        ELSE [panic |-> Nil,
              line  |-> [i \in 1..n |->
                            IF i <= Len(l.fieldSequence)
                               /\ l.fieldSequence[i] \in DOMAIN row
                            THEN row[l.fieldSequence[i]]
                            ELSE Nil]]

rangeEnds_OnClose(c, closed) == closed

\* for line := range l.fileLineChannel ends when the channel is closed and
\* every line sent before was received
rangeEnds(c, closed) == closed /\ c = <<>>

LoggerLives == lg # NoLogger

NewLogger(options) ==
    /\ lopt = NoOptions
    /\ lopt' = options
    /\ LET r == newLogger(options)
       IN  /\ lg' = r.l
           /\ lerr' = r.err
           /\ lwpc' = IF r.err = Nil THEN "running" ELSE "none"
    /\ UNCHANGED <<logFile, disk, fileLineChannel, lclosed, now, spc, sent,
                   lrow, lres, regVars, serveVars, dispVars, concVars>>

\* the clock
Tick ==
    /\ now < MaxClock * HalfMinute
    /\ now' = now + HalfMinute
    /\ UNCHANGED <<lopt, lg, lerr, logFile, disk, fileLineChannel, lclosed,
                   lwpc, spc, sent, lrow, lres,
                   regVars, serveVars, dispVars, concVars>>

\* a call of l.writeLogRow(row)
WriteLogRow(row) ==
    /\ LoggerLives
    /\ Len(sent) < MaxLines
    /\ lrow' = row
    /\ LET r == writeLogRow(lg, row)
       IN  IF r.panic # Nil
           THEN /\ lres' = r.panic
                /\ UNCHANGED <<fileLineChannel, sent>>
           ELSE IF lclosed
           THEN /\ lres' = SendOnClosed
                /\ UNCHANGED <<fileLineChannel, sent>>
           ELSE /\ lres' = "sent"
                /\ fileLineChannel' = Append(fileLineChannel, r.line)
                /\ sent' = Append(sent, r.line)
    /\ UNCHANGED <<lopt, lg, lerr, logFile, disk, lclosed, now, lwpc, spc,
                   regVars, serveVars, dispVars, concVars>>

\* the writer goroutine receives a line: l.writeFileLine(line)
WriteFileLine ==
    /\ lwpc = "running"
    /\ fileLineChannel # <<>>
    /\ LET line == Head(fileLineChannel)
           file == refreshLogFile(lg, logFile, now, FileSize(logFile, disk))
       IN  /\ logFile' = file
           /\ disk' = Append(disk, [file |-> file, line |-> line])
    /\ fileLineChannel' = Tail(fileLineChannel)
    /\ UNCHANGED <<lopt, lg, lerr, lclosed, now, lwpc, spc, sent, lrow, lres,
                   regVars, serveVars, dispVars, concVars>>

\* the range loop ends; the deferred function closes the file and calls
\* l.stopWait.Done()
WriterExit ==
    /\ lwpc = "running"
    /\ rangeEnds(fileLineChannel, lclosed)
    /\ lwpc' = "terminated"
    /\ UNCHANGED <<lopt, lg, lerr, logFile, disk, fileLineChannel, lclosed,
                   now, spc, sent, lrow, lres,
                   regVars, serveVars, dispVars, concVars>>

\* stop(): close(l.fileLineChannel), then l.stopWait.Wait()
StopClose ==
    /\ LoggerLives
    /\ spc = "idle"
    /\ lclosed' = TRUE
    /\ spc' = "waiting"
    /\ UNCHANGED <<lopt, lg, lerr, logFile, disk, fileLineChannel, now, lwpc,
                   sent, lrow, lres, regVars, serveVars, dispVars, concVars>>

StopReturn ==
    /\ spc = "waiting"
    /\ lwpc = "terminated"
    /\ spc' = "returned"
    /\ UNCHANGED <<lopt, lg, lerr, logFile, disk, fileLineChannel, lclosed,
                   now, lwpc, sent, lrow, lres,
                   regVars, serveVars, dispVars, concVars>>

LogInit ==
    /\ lopt = NoOptions
    /\ lg = NoLogger
    /\ lerr = Nil
    /\ logFile = NoFile
    /\ disk = <<>>
    /\ fileLineChannel = <<>>
    /\ lclosed = FALSE
    /\ now = 0
    /\ lwpc = "none"
    /\ spc = "idle"
    /\ sent = <<>>
    /\ lrow = NoRow
    /\ lres = "none"

RegInit ==
    /\ regPc = "idle"
    /\ router = <<>>
    /\ regRoute = NoRoute
    /\ regOut = NoOut
    /\ regResult = NoResult

ServeInit ==
    /\ pc = "idle"
    /\ req = NoReq
    /\ arg = NewArg
    /\ rw = NewResponseWriter
    /\ bodyRead = FALSE
    /\ did = NotCalled
    /\ out = NoCall
    /\ respData = RespNil
    /\ hook = <<>>

\* the decorator has logged nothing
DecoratorInit == accessLog = <<>>

OtherInit ==
    /\ DispInit /\ dh = NoNamedHandler
    /\ ConcInit /\ ch = NoHandler
    /\ LogInit
    /\ DecoratorInit

Init == RegInit /\ ServeInit /\ h \in ServeHandlers /\ OtherInit

Next ==
    \/ \E r \in RequestsFor(h) : Receive(r)
    \/ ParseArgument
    \/ \E b \in Behaviours : CallMethod(b)
    \/ Shape
    \/ Telemetry
    \/ Finish

Spec == Init /\ [][Next]_vars

\* registration: no handler serves
InitReg == RegInit /\ ServeInit /\ h = NoHandler /\ OtherInit

NextReg ==
    \/ NewHTTPRouter
    \/ \E rt \in Routes : RegisterFunctionsToHTTPRouter(rt)
    \/ RegisterReturn
    \/ RegisterAgain

SpecReg == InitReg /\ [][NextReg]_vars

\* the handler that dispatches on the method name, alone
InitNamed ==
    /\ RegInit /\ ServeInit /\ h = NoHandler
    /\ ConcInit /\ ch = NoHandler
    /\ LogInit
    /\ DecoratorInit
    /\ DispInit
    /\ dh \in {NewNamedServiceHandler(k) : k \in {Nil, ServiceHandlerAccessLogRowFillerContextKey}}

NextNamed ==
    \/ \E c \in Callees, n \in Names : RegisterMethodWithName(c, n)
    \/ \E r \in DRequests : NamedReceive(r)
    \/ NamedServe
    \/ \E b \in CalleeBehaviours(1) \cup CalleeBehaviours(2) : NamedCall(b)
    \/ NamedShape
    \/ NamedTelemetry
    \/ NamedFinish

SpecNamed == InitNamed /\ [][NextNamed]_vars

\* requests served at the same time by one handler
InitConc ==
    /\ RegInit /\ ServeInit /\ h = NoHandler
    /\ DispInit /\ dh = NoNamedHandler
    /\ LogInit
    /\ DecoratorInit
    /\ ConcInit
    /\ ch \in ConcHandlers

NextConc ==
    \/ \E w \in Workers : \E r \in ConcRequestsFor(ch) : ConcReceive(w, r)
    \/ \E w \in Workers : ConcParseArgument(w)
    \/ \E w \in Workers : ConcCallMethod(w)
    \/ \E w \in Workers : ConcFinish(w)

SpecConc == InitConc /\ [][NextConc]_vars

\* the rotating access-log writer: one logger, its callers and its goroutine
InitLog == InitReg

NextLog ==
    \/ \E o \in LogOptions : NewLogger(o)
    \/ Tick
    \/ \E row \in Rows : WriteLogRow(row)
    \/ WriteFileLine
    \/ WriterExit
    \/ StopClose
    \/ StopReturn

SpecLog == InitLog /\ [][NextLog]_vars

(***************************************************************************)
(*                              THE CLAIMS                                 *)
(***************************************************************************)

\* The signature the framework documents: a function of the context pointer
\* and a pointer to a struct (or list), with one result.
IsFunc(t)          == t.kind = "Func"
HasTwoInputs(t)    == IsFunc(t) /\ Len(t.in) = 2
FirstIsContext(t)  == HasTwoInputs(t) /\ t.in[1] = CtxPtr
SecondIsPtrToStructOrList(t) ==
    HasTwoInputs(t) /\ t.in[2].kind = "Ptr" /\ t.in[2].elemKind \in {"Struct", "Slice"}
SecondIsPtrToStruct(t) ==
    HasTwoInputs(t) /\ t.in[2].kind = "Ptr" /\ t.in[2].elemKind = "Struct"
HasOneOutput(t)    == IsFunc(t) /\ t.numOut = 1

SupportedSignature(t) ==
    /\ IsFunc(t) /\ HasTwoInputs(t) /\ FirstIsContext(t)
    /\ SecondIsPtrToStructOrList(t) /\ HasOneOutput(t)

AcceptedStructShape(t) == SupportedSignature(t) /\ SecondIsPtrToStruct(t)

\* the last loop iteration handled a route
Registered == regRoute # NoRoute

\* the route of the last iteration is installed, and NewHTTPRouter has not failed
Installed ==
    /\ Len(router) > 0
    /\ router[Len(router)].handler = regOut.h
    /\ ~regOut.h.isNil
    /\ regResult.err = Nil

(***************************************************************************)
(* C1 (as claimed; the code breaks it).  Registering a route whose         *)
(* callable has the accepted shape (context pointer, pointer to a struct,  *)
(* one result) with file-upload mode off succeeds: NewServiceHandler       *)
(* returns a handler with a nil error, and the route is installed without  *)
(* an error.                                                               *)
(***************************************************************************)
C1_AcceptedShapeRegisters ==
    (Registered /\ AcceptedStructShape(regRoute.Function) /\ ~regRoute.Filemode)
        => (regOut.err = Nil /\ Installed)

(***************************************************************************)
(* C2 (as claimed; the code breaks it).  For every callable with an        *)
(* unsupported signature, registration returns an error and no route is    *)
(* installed for it.                                                       *)
(***************************************************************************)
C2_UnsupportedSignatureRejected ==
    (Registered /\ ~SupportedSignature(regRoute.Function))
        => /\ regOut.err # Nil
           /\ regResult.err # Nil
           /\ \A i \in DOMAIN router : router[i].handler.method.type # regRoute.Function

(***************************************************************************)
(* Vocabulary of the requests: which source supplies the field A, and      *)
(* which faults a request carries.  All of it is stated on the request,    *)
(* not on what the handler made of it.                                     *)
(***************************************************************************)
InRequest     == pc # "idle"
AfterParse    == pc \notin {"idle", "parse"}
AfterShape    == did.called /\ pc \in {"telemetry", "done", "crashed"}
Ended         == pc \in {"done", "crashed"}

LogOps(ops)   == {i \in DOMAIN rw.log : rw.log[i].op \in ops}
Called        == LogOps({"call"}) # {}
WriteCount    == Cardinality(LogOps({"writeFormattedResponse", "writeResponse"}))
RecordCount   == Cardinality(LogOps({"Record"}))

\* the route takes a JSON body from this request
TakesJSONBody(hd, r) == ~hd.filemode /\ ~hd.bypassRequestBody /\ r.contentType = ContentTypeJSON

QuerySupplies(r)    == r.query.ok /\ r.query.A # NoValue
BodySupplies(hd, r) == TakesJSONBody(hd, r) /\ r.body.syntax = "object" /\ r.body.A # NoValue
PathSupplies(r)     == r.params # NoValue

MalformedQuery(r)    == ~r.query.ok \/ r.query.A = "x"
MalformedBody(hd, r) ==
    \/ TakesJSONBody(hd, r) /\ (r.body.syntax # "object" \/ r.body.A = "str")
    \/ ~hd.filemode /\ readsFormBody(r) /\ r.body.syntax = "invalid"
MalformedPath(r)     == r.params = "x"
DecodeFault(hd, r)   == MalformedQuery(r) \/ MalformedBody(hd, r) \/ MalformedPath(r)

\* the value the precedence law gives the field: path over body over query,
\* and the zero value of a fresh argument when no source supplies it
Winner(hd, r) ==
    IF PathSupplies(r) THEN StrToInt[r.params]
    ELSE IF BodySupplies(hd, r) THEN StrToInt[r.body.A]
    ELSE IF QuerySupplies(r) THEN StrToInt[r.query.A]
    ELSE 0

BindsStruct(hd) == ~hd.filemode /\ hd.method.argType \in {PlainPtr, ValidatorPtr}

\* the one envelope a 400 answer consists of
Is400Envelope ==
    /\ rw.status = 400
    /\ Len(rw.body) = 1
    /\ rw.body[1].shape = "envelope"
    /\ rw.body[1].code = 400
    /\ rw.body[1].msg = "parse argument failed"

(***************************************************************************)
(* C3.  Precedence law of argument binding: when binding succeeds, the     *)
(* field holds the path value if the path captures supply it, whatever     *)
(* body and query string supply; else the body value if the JSON body      *)
(* supplies it; else the query value; and a field no source supplies       *)
(* keeps the zero value of the fresh argument.                             *)
(***************************************************************************)
C3_PrecedenceLaw ==
    (AfterParse /\ BindsStruct(h) /\ (pc = "call" \/ Called))
        => arg.A = Winner(h, req)

\* all three sources supply the field with different values: the path wins
C3_Witness ==
    /\ Called /\ BindsStruct(h)
    /\ PathSupplies(req) /\ BodySupplies(h, req) /\ QuerySupplies(req)
    /\ req.params = "3" /\ req.body.A = "2" /\ req.query.A = "1"
    /\ arg.A = 3

(***************************************************************************)
(* C4 (as claimed; the code breaks it).  On a route that does not bypass   *)
(* the request body, a request of the JSON content type whose body is not  *)
(* one well-formed JSON text (empty, malformed, or a JSON value followed   *)
(* by other bytes) is answered 400 and the callable is not invoked.        *)
(***************************************************************************)
InvalidJSONText(body) ==
    body.kind = "text" /\ (body.syntax \in {"empty", "invalid"} \/ body.trailing)

C4_InvalidBodyIs400 ==
    (AfterParse /\ TakesJSONBody(h, req) /\ InvalidJSONText(req.body) /\ ~MalformedQuery(req))
        => (Is400Envelope /\ ~Called /\ pc = "done")

(***************************************************************************)
(* C5 (as claimed; the code breaks it).  Every binding failure - malformed *)
(* query string, malformed body, validation violation, multipart-read      *)
(* fault - ends the request with a single 400 envelope, the callable not   *)
(* invoked and no Record call made, even with a logger in the context.     *)
(***************************************************************************)
MultipartReadFault(hd, r) ==
    hd.filemode /\ (r.contentType # ContentTypeMultipart \/ r.body.end = "error")

ValidationViolation(hd, r) ==
    BindsStruct(hd) /\ hd.method.argType = ValidatorPtr /\ ~DecodeFault(hd, r) /\ Winner(hd, r) = 0

BindingFailure(hd, r) ==
    \/ MultipartReadFault(hd, r)
    \/ BindsStruct(hd) /\ DecodeFault(hd, r)
    \/ ValidationViolation(hd, r)

C5_BindingFailureIs400 ==
    (AfterParse /\ BindingFailure(h, req))
        => (Is400Envelope /\ WriteCount = 1 /\ ~Called /\ hook = <<>> /\ pc = "done")

(***************************************************************************)
(* C6 (as claimed).  On a struct with a required field and a request       *)
(* without decoding faults: if no source supplies the field the answer is  *)
(* 400 with the violation text and no call; if at least one source         *)
(* supplies it, validation passes and the callable is invoked.             *)
(***************************************************************************)
RequiredText == "Key: 'validatorEnabled.A' Error:Field validation for 'A' failed on the 'required' tag"

ValidatesRequired(hd, r) ==
    BindsStruct(hd) /\ hd.method.argType = ValidatorPtr /\ ~DecodeFault(hd, r)

Supplied(hd, r) == QuerySupplies(r) \/ BodySupplies(hd, r) \/ PathSupplies(r)

Is400Violation == Is400Envelope /\ rw.body[1].data = RequiredText /\ ~Called /\ pc = "done"

Invoked == pc = "call" \/ Called

C6_RequiredSuppliedPasses ==
    (AfterParse /\ ValidatesRequired(h, req))
        => IF Supplied(h, req) THEN Invoked ELSE Is400Violation

(***************************************************************************)
(* C6 (amended).  Validation is applied to the merged value: the answer is *)
(* 400 with the violation text and no call exactly when the merged value   *)
(* of the required field is the zero value - no source supplies it, or the *)
(* source that wins supplies 0; with a non-zero merged value (supplied by  *)
(* the query string alone, say) validation passes and the callable is      *)
(* invoked.                                                                *)
(***************************************************************************)
C6_RequiredMergedNonZero ==
    (AfterParse /\ ValidatesRequired(h, req))
        => IF Winner(h, req) # 0 THEN Invoked /\ arg.A = Winner(h, req) ELSE Is400Violation

\* the query string alone supplies the required field, and the callable runs
C6_Witness ==
    /\ Called /\ ValidatesRequired(h, req)
    /\ QuerySupplies(req) /\ ~BodySupplies(h, req) /\ ~PathSupplies(req)
    /\ arg.A = 1

(***************************************************************************)
(* Vocabulary of the answers.                                              *)
(***************************************************************************)
LastChunk == rw.body[Len(rw.body)]

\* the last thing in the body is this envelope, written with WriteHeader(code)
EnvelopeWritten(resp) ==
    /\ Len(rw.body) > 0
    /\ LastChunk = [shape |-> "envelope", code |-> resp.Code, msg |-> resp.Msg, data |-> resp.Data]
    /\ \E i \in DOMAIN rw.log : rw.log[i] = [op |-> "WriteHeader", v |-> resp.Code]

\* the envelope is the whole answer, under its own status
AnsweredWith(resp) == EnvelopeWritten(resp) /\ rw.status = resp.Code /\ Len(rw.body) = 1

\* the callable had written itself: 200 went out before the envelope
AppendedTo200(resp) == EnvelopeWritten(resp) /\ rw.status = 200 /\ Len(rw.body) = 2

ReturnedEnvelope == ~did.panics /\ did.ret \in {RetEnvelope(c) : c \in EnvelopeCodes}
ReturnedError    == ~did.panics /\ did.ret = RetError

PanickedEnvelope == FormattedResponse(500, "service method panicked", PanicStack)

NonEmptyPayload == LastChunk.data.Panic # "" /\ LastChunk.data.Stack # ""

PanickedWithValue == did.panics /\ did.value # Nil
PanickedWithNil   == did.panics /\ did.value = Nil

\* nothing is written for the request, and a panic leaves the handler
LeftByPanic ==
    /\ pc = "crashed"
    /\ WriteCount = 0
    /\ rw.body = IF did.wrote THEN <<RawChunk>> ELSE <<>>
    /\ hook = <<>>

\* what the handler has written once a panicking call has been shaped
C8_PanicWritten ==
    /\ (AfterShape /\ PanickedWithValue)
          => /\ WriteCount = 1
             /\ NonEmptyPayload
             /\ IF did.wrote THEN AppendedTo200(PanickedEnvelope) ELSE AnsweredWith(PanickedEnvelope)
    /\ (AfterShape /\ PanickedWithNil) => LeftByPanic

\* the step that ends such a request leaves the handler as it started
C8_ServesNext ==
    (Ended /\ did.panics) => (pc' = "idle" /\ h' = h /\ ServeInit')

ErrorEnvelope == FormattedResponse(500, "service method error", "expected error")

C9_ErrorIs500 ==
    (AfterShape /\ ReturnedError)
        => (EnvelopeWritten(ErrorEnvelope) /\ rw.status = 500 /\ rw.status # 200)

(***************************************************************************)
(* C9 (amended).  The handler writes the 500 envelope "service method      *)
(* error" with the error's text, once, and no value is encoded; the HTTP   *)
(* status is 500 when the callable had not written to the response before  *)
(* returning, else 200 has gone out already and the envelope follows the   *)
(* callable's bytes.                                                       *)
(***************************************************************************)
C9_ErrorWritten ==
    (AfterShape /\ ReturnedError)
        => /\ WriteCount = 1
           /\ IF did.wrote THEN AppendedTo200(ErrorEnvelope) ELSE AnsweredWith(ErrorEnvelope)

C9_Witness ==
    /\ AfterShape /\ ReturnedError /\ ~did.wrote
    /\ AnsweredWith(ErrorEnvelope)

(***************************************************************************)
(* C10 (as claimed).  For every request the response shaper makes exactly  *)
(* one response write (writeFormattedResponse or writeResponse), whatever  *)
(* the callable returns and whatever the bypass flags are.                 *)
(***************************************************************************)
C10_ExactlyOneWrite == AfterShape => WriteCount = 1

(***************************************************************************)
(* C10 (amended).  The shaper makes at most one response write per         *)
(* request: exactly one, except that it writes nothing when the callable   *)
(* returns a nil FormattedResponse pointer, or returns a value that is     *)
(* neither an error nor an envelope on a route with BypassResponseBody, or *)
(* panics with a nil value (the shaper then panics itself).                *)
(***************************************************************************)
WritesNothing ==
    \/ PanickedWithNil
    \/ /\ ~did.panics
       /\ \/ did.ret = RetNilEnvelope
          \/ did.ret \in {RetNil, RetValue, RetUnencodable} /\ h.bypassResponseBody

C10_AtMostOneWrite ==
    AfterShape => WriteCount = (IF WritesNothing THEN 0 ELSE 1)

\* both cases in one handler's life cannot be one state: the silent one
C10_Witness ==
    /\ AfterShape /\ did.ret = RetValue /\ ~did.panics /\ h.bypassResponseBody
    /\ WriteCount = 0 /\ ~did.wrote /\ rw.body = <<>>

(***************************************************************************)
(* C11.  Whenever the framework writes a response - the 400 of a binding   *)
(* failure, the 500 of a panic or of a returned error, a custom envelope,  *)
(* or a value - it first sets both headers, x-content-type-options:        *)
(* nosniff and Content-Type: application/json, and only then writes the    *)
(* status line or a body byte: each write begins with the two Header.Set   *)
(* calls, the header map holds both lines, and they go out with the status *)
(* line unless the callable had already written to the response itself.    *)
(***************************************************************************)
FrameworkWrites == LogOps({"writeFormattedResponse", "writeResponse"})

FixedHeaders == {HeaderNoSniff, HeaderJSON}

C11_HeadersBeforeBytes ==
    /\ \A i \in FrameworkWrites :
          /\ i + 2 <= Len(rw.log)
          /\ rw.log[i + 1].op = "Header.Set"
          /\ rw.log[i + 2].op = "Header.Set"
          /\ \A j \in 1..(i - 1) : rw.log[j].op \in {"WriteHeader", "Write"} => did.wrote
    /\ FrameworkWrites # {} => FixedHeaders \subseteq rw.header
    /\ (FrameworkWrites # {} /\ rw.wroteHeader /\ ~did.wrote) => FixedHeaders \subseteq rw.sentHeader

\* the value path: status 200 went out with both headers
C11_Witness ==
    /\ AfterShape /\ did.ret = RetValue /\ ~did.panics /\ ~did.wrote
    /\ LogOps({"writeResponse"}) # {}
    /\ rw.status = 200 /\ rw.sentHeader = FixedHeaders

(***************************************************************************)
(* C12 (as claimed; the code breaks it).  A handler built with a non-nil   *)
(* lookup key serves a request whose context holds no hook under that key  *)
(* normally: no fault leaves the handler and no telemetry is recorded.     *)
(* Requests whose multipart stream breaks are left aside, they fault       *)
(* before the hook is looked up.                                           *)
(***************************************************************************)
NextPartFault(hd, r) ==
    hd.filemode /\ r.contentType = ContentTypeMultipart /\ r.body.end = "error"

HookAbsent(hd, r) == recordsTelemetry(hd) /\ ~r.logger

C12_HookIsOptional ==
    (InRequest /\ HookAbsent(h, req) /\ ~NextPartFault(h, req))
        => (pc # "crashed" /\ hook = <<>>)

(***************************************************************************)
(* C13 (as claimed).  With a hook in the context and the callable invoked, *)
(* the hook gets exactly four Record calls - methodCallArgument,           *)
(* methodCallResponseData, methodCallBeginTime, methodCallDuration, each   *)
(* once - all after the response write, whatever the callable returned.    *)
(***************************************************************************)
HookPresent(hd, r) == recordsTelemetry(hd) /\ r.logger

RecordedFields == [i \in DOMAIN hook |-> hook[i].field]

FourFields ==
    <<"methodCallArgument", "methodCallResponseData", "methodCallBeginTime", "methodCallDuration">>

FourRecordsAfterWrite ==
    /\ pc = "done"
    /\ RecordedFields = FourFields
    /\ RecordCount = Len(FourFields)
    /\ hook[1].value = arg
    /\ hook[2].value = respData
    /\ \A i \in LogOps({"Record"}) : \A j \in LogOps({"WriteHeader", "Write"}) \cup FrameworkWrites : j < i

C13_FourRecords ==
    (Ended /\ did.called /\ HookPresent(h, req)) => FourRecordsAfterWrite

(***************************************************************************)
(* C13 (amended).  With a hook in the context and the callable invoked,    *)
(* when the response payload can be marshalled to JSON the hook gets       *)
(* exactly four Record calls - methodCallArgument, methodCallResponseData, *)
(* methodCallBeginTime, methodCallDuration, each once, in this order - all *)
(* after the response write of the request, on the fault, declared-error,  *)
(* envelope and plain-value paths alike; when the payload cannot be        *)
(* marshalled, or the callable panicked with a nil value so that the       *)
(* shaper panicked, the handler panics and the hook gets no call at all.   *)
(* No Record call is made before the response has been shaped.             *)
(***************************************************************************)
C13_FourRecordsIfMarshalled ==
    /\ (Ended /\ did.called /\ HookPresent(h, req))
          => IF marshals(respData) /\ ~PanickedWithNil
             THEN FourRecordsAfterWrite
             ELSE pc = "crashed" /\ hook = <<>> /\ RecordCount = 0
    /\ (InRequest /\ ~Ended) => (hook = <<>> /\ RecordCount = 0)

\* the fault path: the 500 envelope was written, then the four fields recorded
C13_Witness ==
    /\ pc = "done" /\ did.panics /\ HookPresent(h, req)
    /\ WriteCount = 1 /\ rw.status = 500
    /\ RecordedFields = FourFields
    /\ hook[2].value = RespEnvelope(PanickedEnvelope)

(***************************************************************************)
(* C14 (as claimed; the code breaks it).  Outside file mode the framework  *)
(* reads the request body while binding only when BypassRequestBody is     *)
(* false and the content type is application/json: a route registered with *)
(* BypassRequestBody = true hands the callable an unread body, whatever    *)
(* the verb and the content type of the request.                           *)
(***************************************************************************)
C14_BypassLeavesBodyUnread ==
    /\ (AfterParse /\ ~h.filemode /\ h.bypassRequestBody) => ~bodyRead
    /\ (AfterParse /\ ~h.filemode /\ bodyRead /\ ~readsFormBody(req))
          => (~h.bypassRequestBody /\ req.contentType = ContentTypeJSON)

(***************************************************************************)
(* C15 (as claimed).  With BypassResponseBody and no panic, a returned     *)
(* value that is neither error nor envelope causes no framework write at   *)
(* all (no header, status or body); a returned error or non-nil envelope   *)
(* is still written as an envelope under its status.  Without the flag     *)
(* the returned value is JSON-encoded as the body with status 200.         *)
(***************************************************************************)
ReturnedPlain == ~did.panics /\ did.ret \in {RetNil, RetValue, RetUnencodable}

\* the envelope the handler owes a returned error or envelope
OwedEnvelope == IF did.ret = RetError THEN ErrorEnvelope ELSE did.ret.resp

\* nothing was done to the response but what the callable did itself
FrameworkSilent ==
    /\ LogOps({"writeFormattedResponse", "writeResponse", "Header.Set", "WriteHeader"}) = {}
    /\ rw.header = {}
    /\ rw.body = IF did.wrote THEN <<RawChunk>> ELSE <<>>

ValueEncoded ==
    /\ LogOps({"writeResponse"}) # {}
    /\ Len(rw.body) > 0
    /\ LastChunk = ValueChunk(did.ret.resp.Data)
    /\ rw.status = 200

C15_BypassResponseBody ==
    /\ (AfterShape /\ h.bypassResponseBody /\ ReturnedPlain) => FrameworkSilent
    /\ (AfterShape /\ h.bypassResponseBody /\ (ReturnedError \/ ReturnedEnvelope))
          => (EnvelopeWritten(OwedEnvelope) /\ rw.status = OwedEnvelope.Code)
    /\ (AfterShape /\ ~h.bypassResponseBody /\ ReturnedPlain) => ValueEncoded

(***************************************************************************)
(* C15 (amended).  With BypassResponseBody and no panic, a returned value  *)
(* that is neither error nor envelope causes no framework write at all; a  *)
(* returned error or non-nil envelope is still written as an envelope,     *)
(* with WriteHeader of its code - which is the HTTP status unless the      *)
(* callable has written to the response itself, as a bypass callable       *)
(* does: then 200 has gone out and the envelope follows its bytes.         *)
(* Without the flag a returned value that json can encode is written as    *)
(* the body with status 200; for one it cannot encode the headers are set  *)
(* and no byte is written.                                                 *)
(***************************************************************************)
C15_BypassResponseBodyWritten ==
    /\ (AfterShape /\ h.bypassResponseBody /\ ReturnedPlain) => FrameworkSilent
    /\ (AfterShape /\ h.bypassResponseBody /\ (ReturnedError \/ ReturnedEnvelope))
          => IF did.wrote THEN AppendedTo200(OwedEnvelope) ELSE AnsweredWith(OwedEnvelope)
    /\ (AfterShape /\ ~h.bypassResponseBody /\ ReturnedPlain)
          => IF Encodable(did.ret.resp.Data)
             THEN ValueEncoded
             ELSE /\ LogOps({"writeResponse"}) # {}
                  /\ FixedHeaders \subseteq rw.header
                  /\ rw.body = IF did.wrote THEN <<RawChunk>> ELSE <<>>

\* the passthrough case: the callable wrote its own body and returned a value
C15_Witness ==
    /\ AfterShape /\ h.bypassResponseBody /\ did.ret = RetValue /\ ~did.panics
    /\ did.wrote /\ rw.body = <<RawChunk>> /\ rw.header = {} /\ rw.status = 200

(***************************************************************************)
(* C16.  In file mode, for a multipart body that reads to its end, the     *)
(* bound argument is exactly the list of the parts that carry a file name, *)
(* in body order, each as {FormName, FileName, Content}; parts without a   *)
(* file name are dropped; nothing of the query string or the path captures *)
(* is merged in and no validation is applied: the callable is invoked.     *)
(***************************************************************************)
ReadableUpload(hd, r) ==
    hd.filemode /\ r.contentType = ContentTypeMultipart /\ r.body.end = "EOF"

FileIndices(parts) == {i \in DOMAIN parts : parts[i].FileName # ""}

\* the k-th part with a file name, for every k
ExpectedFiles(parts) ==
    [k \in 1..Cardinality(FileIndices(parts)) |->
        LET i == CHOOSE n \in FileIndices(parts) :
                    Cardinality({m \in FileIndices(parts) : m < n}) = k - 1
        IN  [FormName |-> parts[i].FormName, FileName |-> parts[i].FileName, Content |-> i]]

C16_UploadList ==
    (AfterParse /\ ReadableUpload(h, req))
        => /\ Invoked
           /\ arg.files = ExpectedFiles(req.body.parts)
           /\ arg.A = NewArg.A

\* a non-file part, then a file part, with a query value and a path capture
\* beside them: a list of length 1 and nothing merged
C16_Witness ==
    /\ Called /\ ReadableUpload(h, req)
    /\ req.body.parts = <<NonFilePart, FilePart>>
    /\ req.query.A = "1" /\ req.params = "3"
    /\ Len(arg.files) = 1
    /\ arg.files[1] = [FormName |-> "file", FileName |-> "hosts", Content |-> 2]
    /\ arg.A = 0

(***************************************************************************)
(* C17 (as claimed; the code breaks it).  In file mode every multipart     *)
(* read fault - the request is not multipart, or reading the next part     *)
(* fails with an error other than io.EOF - is a binding failure: a 400     *)
(* envelope, the callable not invoked, and no panic leaving the handler.   *)
(***************************************************************************)
C17_UploadFaultIs400 ==
    (AfterParse /\ h.filemode /\ (req.contentType # ContentTypeMultipart \/ NextPartFault(h, req)))
        => (pc = "done" /\ Is400Envelope /\ ~Called)

(***************************************************************************)
(* C18 (as claimed; the code breaks it).  The prototype check accepts a    *)
(* callable only if it has one or two results and the last (or only) one   *)
(* is the error type: a callable whose only result is a non-error type,    *)
(* or whose second result is not error, is rejected at registration.       *)
(***************************************************************************)
LastOutputIsError(t) == t.numOut \in {1, 2} /\ t.out[t.numOut] = ErrorType

C18_LastOutputMustBeError ==
    (Registered /\ IsFunc(regRoute.Function) /\ ~LastOutputIsError(regRoute.Function))
        => /\ checkServiceMethodPrototype(regRoute.Function) # Nil
           /\ regOut.err # Nil
           /\ regOut.h.isNil

(***************************************************************************)
(* C19.  With file mode on, a callable of the supported signature is       *)
(* registered - nil error, a file-mode handler, its route installed - if   *)
(* and only if its argument type is the pointer to the list of File        *)
(* pointers; with any other argument (a struct pointer, a list of another  *)
(* element type) NewServiceHandler returns an error and no handler, and    *)
(* nothing is installed for the route.                                     *)
(***************************************************************************)
TakesFileList(t) == HasTwoInputs(t) /\ t.in[2] = FileListPtr

ReturnedResult == ~did.panics /\ did.ret = RetValue /\ ~h.bypassResponseBody

C20_ResultUnderData ==
    (AfterShape /\ ReturnedResult)
        => /\ rw.status = 200
           /\ Len(rw.body) > 0
           /\ LastChunk.shape = "envelope"
           /\ LastChunk.data = did.ret.resp.Data

(***************************************************************************)
(* C20 (amended).  A callable that returns a value and no error, on a      *)
(* request that binds and a route without BypassResponseBody, is answered  *)
(* with status 200 and a body that is the JSON encoding of the result      *)
(* itself, written by one writeResponse: the value is not wrapped in the   *)
(* {"code", "msg", "data"} envelope, which only error answers and          *)
(* returned FormattedResponse values have.                                 *)
(***************************************************************************)
C20_ResultIsTheBody ==
    (AfterShape /\ ReturnedResult)
        => /\ rw.status = 200
           /\ WriteCount = 1
           /\ LogOps({"writeResponse"}) # {}
           /\ Len(rw.body) > 0
           /\ LastChunk = ValueChunk(did.ret.resp.Data)
           /\ LastChunk.shape # "envelope"
           /\ ~did.wrote => Len(rw.body) = 1

\* a JSON request that binds A = 2, answered with the bare result
C20_Witness ==
    /\ pc = "done" /\ ReturnedResult /\ did.called /\ ~did.wrote
    /\ req.contentType = ContentTypeJSON /\ arg.A = 2
    /\ rw.status = 200
    /\ rw.body = <<ValueChunk("result")>>

(***************************************************************************)
(* Vocabulary of the handler that dispatches on the method name.           *)
(***************************************************************************)
NamedAfterShape == dcall.did.called /\ dpc \in {"telemetry", "done", "crashed"}
NamedEnded      == dpc \in {"done", "crashed"}

NamedLogOps(ops) == {i \in DOMAIN drw.log : drw.log[i].op \in ops}
NamedLastChunk   == drw.body[Len(drw.body)]

\* the callee returned, with a nil error
ReturnedNilError ==
    /\ ~dcall.did.panics
    /\ Len(dcall.did.outs) > 0
    /\ dcall.did.outs[Len(dcall.did.outs)] = Nil

\* nothing was done to the response but what the callee did itself
NamedFrameworkSilent ==
    /\ NamedLogOps({"writeErrorResponse", "writeJSONResponse", "Header.Set", "WriteHeader"}) = {}
    /\ drw.header = {}
    /\ drw.body = IF dcall.did.wrote THEN <<RawChunk>> ELSE <<>>
    /\ drw.wroteHeader = dcall.did.wrote

\* the first result is the last thing in the body, under status 200
NamedResultEncoded ==
    /\ Cardinality(NamedLogOps({"writeJSONResponse"})) = 1
    /\ NamedLogOps({"writeErrorResponse"}) = {}
    /\ Len(drw.body) > 0
    /\ NamedLastChunk = ValueChunk(dcall.did.outs[1])
    /\ drw.status = 200

(***************************************************************************)
(* C21 (as claimed).  In the handler with one- and two-result callees:     *)
(* when a callee of the error-only prototype returns nil the framework     *)
(* writes nothing to the response - no header, no status, no body - and    *)
(* the response is the callee's own; when a two-result callee returns a    *)
(* nil error its first result is JSON-encoded as the body with status 200, *)
(* also when that result is nil.                                           *)
(***************************************************************************)
C21_PassthroughOrResult ==
    /\ (NamedAfterShape /\ ReturnedNilError /\ Len(dcall.did.outs) = 1) => NamedFrameworkSilent
    /\ (NamedAfterShape /\ ReturnedNilError /\ Len(dcall.did.outs) = 2) => NamedResultEncoded

(***************************************************************************)
(* C21 (amended).  When a callee of the error-only prototype returns nil   *)
(* the framework writes nothing to the response - no header, no status,    *)
(* no body.  When a two-result callee returns a nil error, its first       *)
(* result is JSON-encoded as the body with status 200, also when that      *)
(* result is nil (the body is then null), provided json can encode the     *)
(* result; for a result json cannot encode the two headers are set and no  *)
(* byte is written.                                                        *)
(***************************************************************************)
C21_PassthroughOrEncodableResult ==
    /\ (NamedAfterShape /\ ReturnedNilError /\ Len(dcall.did.outs) = 1) => NamedFrameworkSilent
    /\ (NamedAfterShape /\ ReturnedNilError /\ Len(dcall.did.outs) = 2)
          => IF Encodable(dcall.did.outs[1])
             THEN NamedResultEncoded
             ELSE /\ Cardinality(NamedLogOps({"writeJSONResponse"})) = 1
                  /\ FixedHeaders \subseteq drw.header
                  /\ NamedLogOps({"WriteHeader"}) = {}
                  /\ drw.body = IF dcall.did.wrote THEN <<RawChunk>> ELSE <<>>

\* a two-result callee returned (nil, nil): the body is null, under 200
C21_Witness ==
    /\ dpc = "done" /\ ReturnedNilError
    /\ dcall.did.outs = <<NilPtr, Nil>> /\ ~dcall.did.wrote
    /\ drw.body = <<ValueChunk(NilPtr)>> /\ drw.status = 200
    /\ drw.sentHeader = FixedHeaders

(***************************************************************************)
(* C22.  The handler that dispatches on the method name selects the method *)
(* by the last "/"-separated segment of the URL path: a request whose last *)
(* segment is a registered name is served by the method registered under   *)
(* it; every request whose last segment is no registered name is answered  *)
(* with the 404 envelope "service method not found", and for it no         *)
(* argument is parsed and no callee is invoked.                            *)
(***************************************************************************)
LastSegment(path) == path[Len(path)]

IsRegisteredName(n) == n \in Names /\ dh.methods[n].registered

NamedLookedUp == dpc \notin {"idle", "serve"}

NotFoundAnswer ==
    /\ drw.status = 404
    /\ drw.body = <<ErrorChunk(404, "service method not found", Nil)>>
    /\ Cardinality(NamedLogOps({"writeErrorResponse"})) = 1

C22_LastSegmentDispatch ==
    /\ (NamedLookedUp /\ IsRegisteredName(LastSegment(dreq.path)))
          => /\ dcall.method = dh.methods[LastSegment(dreq.path)]
             /\ dcall.extracted
             /\ ~NotFoundAnswer
    /\ (NamedLookedUp /\ ~IsRegisteredName(LastSegment(dreq.path)))
          => /\ dpc = "done"
             /\ NotFoundAnswer
             /\ ~dcall.extracted
             /\ dcall.args = NewArg
             /\ ~dcall.did.called
             /\ NamedLogOps({"call"}) = {}

\* a registered name in the path, but not as its last segment: 404
C22_Witness ==
    /\ dpc = "done" /\ dreq.path = <<"get", "nope">>
    /\ IsRegisteredName("get")
    /\ NotFoundAnswer /\ ~dcall.extracted /\ ~dcall.did.called

(***************************************************************************)
(* C23 (as claimed; the code breaks it).  Registration is all-or-nothing:  *)
(* when a route of the list given to RegisterFunctionsToHTTPRouter has an  *)
(* unsupported signature and setup is aborted with its error, no route of  *)
(* that list is left installed in the router - the routes that precede the *)
(* bad one are not installed either.  (That the abort happens for every    *)
(* unsupported signature is C2.)                                           *)
(***************************************************************************)
SetupAborted == regPc = "returned" /\ regResult.err # Nil

C23_AllOrNothing ==
    (SetupAborted /\ ~SupportedSignature(regRoute.Function)) => router = <<>>

(***************************************************************************)
(* C24 (as claimed; the code breaks it).  For any behaviour of the         *)
(* callable, doServiceMethodCall hands back exactly one of two outcomes:   *)
(* a captured fault (a panicStack and no results) or the results of the    *)
(* callable (no panicStack and exactly one result); never both and never   *)
(* neither, so the shaper's panic "return values error" is not reached.    *)
(***************************************************************************)
CapturedFault  == out.ps # NoPanic /\ out.out = <<>>
CalleeOutputs  == out.ps = NoPanic /\ Len(out.out) = 1

C24_ExactlyOneOutcome ==
    did.called
        => /\ CapturedFault \/ CalleeOutputs
           /\ ~(CapturedFault /\ CalleeOutputs)
           /\ did.panics <=> CapturedFault
           /\ ~shapeResponse(h, out, rw).panicked

(***************************************************************************)
(* C25.  Serving a request never changes the handler's stored state        *)
(* (method descriptor, flags, telemetry key), and each request binds into  *)
(* an argument value allocated for it alone: under every interleaving of   *)
(* the requests served at the same time by one handler, the argument a     *)
(* callable invocation sees holds only the values of its own request.      *)
(***************************************************************************)
\* what a request alone binds
OwnArgument(hd, r) ==
    IF hd.filemode
    THEN Arg(NewArg.A, ExpectedFiles(r.body.parts))
    ELSE Arg(Winner(hd, r), <<>>)

InFlight(w) == workers[w].pc # "idle"
Invoked200(w) == workers[w].status = 200

C25_OwnArgument ==
    \A w \in Workers :
        /\ workers[w].pc = "call" => heap[workers[w].addr] = OwnArgument(ch, workers[w].req)
        /\ Invoked200(w) => workers[w].seen = OwnArgument(ch, workers[w].req)
        /\ \A v \in Workers \ {w} : (InFlight(w) /\ InFlight(v)) => workers[w].addr # workers[v].addr

C25_HandlerUnchanged == ch' = ch

C25_RequestsIsolated == [](C25_OwnArgument) /\ [][C25_HandlerUnchanged]_vars

\* two requests in flight at once, each callable saw its own values
C25_Witness ==
    /\ workers[1].pc = "done" /\ workers[2].pc = "done"
    /\ Invoked200(1) /\ Invoked200(2)
    /\ workers[1].req.query.A = "1" /\ workers[1].req.params = NoValue /\ workers[1].req.body.A = NoValue
    /\ workers[2].req.params = "3"
    /\ workers[1].seen.A = 1 /\ workers[2].seen.A = 3

(***************************************************************************)
(* C26.  The rotating writer, before it writes a line to an open file:     *)
(* when more than maxTime has passed since the time in the file's name it  *)
(* switches to the file named with the current time and sequence 1, also   *)
(* when the file is full; otherwise, when the file holds at least maxSize  *)
(* bytes, it switches to the same time with the next sequence number;      *)
(* otherwise it keeps the file.  The line goes to that file.  newLogger    *)
(* fails on a maxTime that does not parse and raises a maxTime below one   *)
(* minute to one minute.                                                   *)
(***************************************************************************)
LineWritten == Len(disk') = Len(disk) + 1
Elapsed == now - logFile.time

C26_RotationStep ==
    (LineWritten /\ logFile # NoFile)
        => /\ disk'[Len(disk')].file = logFile'
           /\ IF Elapsed > lg.maxTime
              THEN logFile' = [time |-> now - (now % Minute), seq |-> 1]
              ELSE IF FileSize(logFile, disk) >= lg.maxSize
                   THEN logFile' = [time |-> logFile.time, seq |-> logFile.seq + 1]
                   ELSE logFile' = logFile

C26_NewLogger ==
    lopt # NoOptions
        => LET p == ParseDuration(lopt.maxTime)
           IN  /\ (p.err # Nil) <=> (lerr # Nil)
               /\ p.err # Nil => lg = NoLogger /\ lwpc = "none"
               /\ p.err = Nil => /\ lg.maxTime >= Minute
                                 /\ p.d >= Minute => lg.maxTime = p.d
                                 /\ p.d < Minute => lg.maxTime = Minute

C26_Rotation == [](C26_NewLogger) /\ [][C26_RotationStep]_vars

\* maxTime "3s" was raised to a minute; a full file (sequence 2) was left for
\* a new time with sequence 1 because the minute had passed
C26_Witness ==
    /\ lopt.maxTime = "3s" /\ lg.maxTime = Minute /\ lg.maxSize = 3
    /\ \E i \in 1..(Len(disk) - 1) :
          /\ disk[i].file.seq = 2
          /\ FileSize(disk[i].file, SubSeq(disk, 1, i)) >= lg.maxSize
          /\ disk[i + 1].file.seq = 1
          /\ disk[i + 1].file.time > disk[i].file.time

(***************************************************************************)
(* C27.  The rotating writer writes the lines in the order writeLogRow     *)
(* sent them, each exactly once: at every moment the lines on disk         *)
(* followed by the lines waiting in the channel are the lines sent.  When  *)
(* stop() has returned, every line sent is on disk, the channel is empty   *)
(* and the writer goroutine has terminated.                                *)
(***************************************************************************)
Written == [i \in 1..Len(disk) |-> disk[i].line]

C27_InOrderOnce == Written \o fileLineChannel = sent

C27_StopDrains ==
    spc = "returned"
        => /\ Written = sent
           /\ fileLineChannel = <<>>
           /\ lwpc = "terminated"

C27_OrderedAndDrained == C27_InOrderOnce /\ C27_StopDrains

\* stop() returned after three lines, not all alike, went to two files
C27_Witness ==
    /\ spc = "returned"
    /\ Len(sent) = 3 /\ sent[1] # sent[2] /\ sent[2] # sent[3]
    /\ disk[1].file # disk[3].file

(***************************************************************************)
(* C28 (as claimed; the code breaks it).  writeLogRow(row) on a running    *)
(* logger succeeds for every row and sends exactly one line, which holds   *)
(* one value for each field of fieldSequence, in that order: the value of  *)
(* the row for the field, nil when the row lacks the field; fields of the  *)
(* row outside fieldSequence do not show, however many fields the row has. *)
(***************************************************************************)
ExpectedLine(l, row) ==
    [i \in 1..Len(l.fieldSequence) |->
        IF l.fieldSequence[i] \in DOMAIN row THEN row[l.fieldSequence[i]] ELSE Nil]

C28_OneLinePerRow ==
    (lres # "none" /\ ~lclosed)
        => /\ lres = "sent"
           /\ sent # <<>>
           /\ sent[Len(sent)] = ExpectedLine(lg, lrow)

(***************************************************************************)
(* C29 (as claimed; the code breaks it).  The status in the access-log row *)
(* is the HTTP status sent to the client - 200 when WriteHeader was never  *)
(* called, the status of the first WriteHeader or Write otherwise, also    *)
(* when the callable wrote body bytes before the framework's error         *)
(* envelope - and the row is logged as an error exactly when that status   *)
(* is 400 or more.                                                         *)
(***************************************************************************)
RequestEnds == pc \in {"done", "crashed"} /\ pc' = "idle"
StatusSent(w) == IF w.wroteHeader THEN w.status ELSE 200

C29_RowStatusStep ==
    (RequestEnds /\ accessLog' # <<>>)
        => /\ accessLog'[1].status = StatusSent(rw)
           /\ (accessLog'[1].level = "error") <=> (StatusSent(rw) >= 400)

C29_RowStatusIsSent == [][C29_RowStatusStep]_vars

(***************************************************************************)
(* C30 (as claimed; the code breaks it).  For every request the decorator  *)
(* emits exactly one row when the handler is through with it, holding the  *)
(* telemetry fields of the request and the seven fixed fields - also when  *)
(* the handler left by a panic outside doServiceMethodCall.                *)
(***************************************************************************)
C30_OneRowStep ==
    RequestEnds
        => /\ Len(accessLog') = 1
           /\ accessLog'[1].telemetry = hook
           /\ FixedFields \subseteq accessLog'[1].fields

C30_OneRowPerRequest == [][C30_OneRowStep]_vars

=============================================================================
